---- MODULE Spec2Model ----
(***************************************************************************)
(* Refinance Clarity Engine: amortization math, break-even, scenario       *)
(* generation and verdict logic.                                           *)
(*                                                                         *)
(* Units.  Dollar amounts are integers in cents (the code rounds every     *)
(* amount with round2).  Annual rates are integers in basis points         *)
(* (650 = 0.065).  yearsRemaining is an integer number of eighths of a     *)
(* year (121 = 15.125 years), which is exact in binary floating point.     *)
(* A nullable value is <<>> (null) or <<v>>.                               *)
(***************************************************************************)
EXTENDS Integers, Sequences, FiniteSets, TLC

VARIABLES input, out, pc, vWinner, vHorizon, vVerdict, vpc, call, ret, fpc,
          bisect, rateCache, now, callers, fetchCount, lastLive,
          alertStore, job, mails, acks

engineVars == <<input, out, pc>>
verdictVars == <<vWinner, vHorizon, vVerdict, vpc>>
\* a direct call of one of the library functions: its arguments, its result,
\* and the locals of computeIRR's bisection loop while it runs
callVars == <<call, ret, fpc, bisect>>
rateVars == <<rateCache, now, callers, fetchCount, lastLive>>
\* the rate-alert file, the alert-check job, and what the outside world saw
alertVars == <<alertStore, job, mails, acks>>
vars == <<input, out, pc, vWinner, vHorizon, vVerdict, vpc, call, ret, fpc,
          bisect, rateCache, now, callers, fetchCount, lastLive,
          alertStore, job, mails, acks>>

\* ---- nullable values (number | null, and the optional override) ----
NULL == <<>>
Some(v) == <<v>>
IsNull(x) == x = <<>>
Val(x) == x[1]

Min(a, b) == IF a <= b THEN a ELSE b

\* ---- bounds of the checked input space ----
MaxBalanceIdx == 2
MaxFeeIdx == 2
MaxHorizonIdx == 4
MaxBreakEven == 68

\* ---- fixed-point arithmetic standing in for IEEE doubles ----
\* Every intermediate stays below 2^31.  Scale = 2^30 carries the discount
\* factors, Limb = 2^15 splits a factor in two digits, RecipScale = 2^28
\* carries 1 / (1 - d), InterestShift = 2^16 the monthly interest
Scale == 1073741824
Limb == 32768
RecipScale == 268435456
InterestShift == 65536
BpPerMonthUnit == 120000
RecipSteps == 7

\* a * b / Scale rounded to nearest, for 0 <= a, b <= Scale
MulFix(a, b) ==
  LET a1 == a \div Limb
      a0 == a % Limb
      b1 == b \div Limb
      b0 == b % Limb
  IN  a1 * b1 + (a1 * b0 + a0 * b1 + (Limb \div 2) + (a0 * b0) \div Limb) \div Limb

\* one step of long division by c: from <<q, r>> with x = q*c + r to the pair
\* for x * sh (needs r * sh < 2^31)
ShiftDiv(qr, c, sh) == <<qr[1] * sh + (qr[2] * sh) \div c, (qr[2] * sh) % c>>

\* the quotient of a pair <<q, r>>, rounded to nearest
RoundQuot(qr, c) == qr[1] + (IF 2 * qr[2] >= c THEN 1 ELSE 0)

\* (v / Scale)^n at scale Scale, by repeated squaring: Math.pow
RECURSIVE PowFix(_, _)
PowFix(v, n) ==
  IF n = 0 THEN Scale
  ELSE LET h  == PowFix(v, n \div 2)
           sq == MulFix(h, h)
       IN  IF n % 2 = 0 THEN sq ELSE MulFix(sq, v)

\* 1 / (1 - d) = (1 + d)(1 + d^2)(1 + d^4)... at scale RecipScale, for the
\* discount factor d < 3/4 at scale Scale: the division by (factor - 1)
RECURSIVE Recip(_, _, _)
Recip(x, dj, steps) ==
  IF steps = 0 THEN x
  ELSE Recip(x + MulFix(x, dj), MulFix(dj, dj), steps - 1)

\* Math.round(x / d) for x >= 0 (half rounds up)
RoundDiv(x, d) == x \div d + (IF 2 * (x % d) >= d THEN 1 ELSE 0)

\* ---- IEEE double arithmetic, exact (break-even, monthly interest, rate change) ----
\* A natural number of any size is the sequence of its digits in base Limb,
\* least significant first, without leading zero digits (0 is <<>>).
LimbBits == 15
MantissaBits == 53
\* cents are converted with CentsShift extra binary places before rounding
CentsShift == 75

RECURSIVE BigOfInt(_)
BigOfInt(n) == IF n = 0 THEN <<>> ELSE <<n % Limb>> \o BigOfInt(n \div Limb)

RECURSIVE BigTrim(_)
BigTrim(a) ==
  IF a = <<>> THEN a
  ELSE IF a[Len(a)] = 0 THEN BigTrim(SubSeq(a, 1, Len(a) - 1))
  ELSE a

Digit(a, i) == IF i <= Len(a) THEN a[i] ELSE 0

RECURSIVE AddFrom(_, _, _, _)
AddFrom(a, b, i, carry) ==
  IF i > Len(a) /\ i > Len(b) THEN (IF carry = 0 THEN <<>> ELSE <<carry>>)
  ELSE <<(Digit(a, i) + Digit(b, i) + carry) % Limb>>
       \o AddFrom(a, b, i + 1, (Digit(a, i) + Digit(b, i) + carry) \div Limb)

BigAdd(a, b) == AddFrom(a, b, 1, 0)

\* a - b for a >= b
RECURSIVE SubFrom(_, _, _, _)
SubFrom(a, b, i, borrow) ==
  IF i > Len(a) THEN <<>>
  ELSE <<(a[i] - Digit(b, i) - borrow + Limb) % Limb>>
       \o SubFrom(a, b, i + 1, IF a[i] - Digit(b, i) - borrow < 0 THEN 1 ELSE 0)

BigSub(a, b) == BigTrim(SubFrom(a, b, 1, 0))

RECURSIVE CmpFrom(_, _, _)
CmpFrom(a, b, i) ==
  IF i = 0 THEN 0
  ELSE IF a[i] # b[i] THEN (IF a[i] < b[i] THEN -1 ELSE 1)
  ELSE CmpFrom(a, b, i - 1)

\* -1, 0 or 1 as a < b, a = b or a > b
BigCmp(a, b) ==
  IF Len(a) # Len(b) THEN (IF Len(a) < Len(b) THEN -1 ELSE 1)
  ELSE CmpFrom(a, b, Len(a))

RECURSIVE MulFrom(_, _, _, _)
MulFrom(a, m, i, carry) ==
  IF i > Len(a) THEN (IF carry = 0 THEN <<>> ELSE <<carry>>)
  ELSE <<(a[i] * m + carry) % Limb>>
       \o MulFrom(a, m, i + 1, (a[i] * m + carry) \div Limb)

\* a * m for 0 <= m < Limb
BigMulSmall(a, m) == IF m = 0 THEN <<>> ELSE MulFrom(a, m, 1, 0)

ShiftLimbs(a, n) == IF a = <<>> THEN a ELSE [i \in 1..n |-> 0] \o a

\* a * k for 0 <= k < Limb * Limb
BigMulInt(a, k) ==
  BigAdd(BigMulSmall(a, k % Limb), ShiftLimbs(BigMulSmall(a, k \div Limb), 1))

\* digits 1..i of the quotient and the remainder of (rem, a[i], ..., a[1]) / d
RECURSIVE DivDown(_, _, _, _)
DivDown(a, d, i, rem) ==
  IF i = 0 THEN <<<<>>, rem>>
  ELSE LET lower == DivDown(a, d, i - 1, (rem * Limb + a[i]) % d)
       IN  <<Append(lower[1], (rem * Limb + a[i]) \div d), lower[2]>>

TrimQuot(qr) == <<BigTrim(qr[1]), qr[2]>>

\* <<a \div d, a % d>> for 0 < d <= Limb
BigDivSmall(a, d) == TrimQuot(DivDown(a, d, Len(a), 0))

BigShl(a, bits) == ShiftLimbs(BigMulSmall(a, 2 ^ (bits % LimbBits)), bits \div LimbBits)

BigShr(a, bits) ==
  IF bits \div LimbBits >= Len(a) THEN <<>>
  ELSE BigDivSmall(SubSeq(a, bits \div LimbBits + 1, Len(a)), 2 ^ (bits % LimbBits))[1]

RECURSIVE SmallBits(_)
SmallBits(n) == IF n = 0 THEN 0 ELSE 1 + SmallBits(n \div 2)

BitLen(a) == IF a = <<>> THEN 0 ELSE LimbBits * (Len(a) - 1) + SmallBits(a[Len(a)])

BigIsOdd(a) == a # <<>> /\ a[1] % 2 = 1

\* q or q + 1 as the discarded part compares to one half (c), ties to even
RoundUp(q, c) == IF c > 0 \/ (c = 0 /\ BigIsOdd(q)) THEN BigAdd(q, <<1>>) ELSE q

RoundShiftOf(a, k, q) ==
  RoundUp(q, BigCmp(BigSub(a, BigShl(q, k)), BigShl(<<1>>, k - 1)))

\* a / 2^k rounded to nearest, ties to even, for k >= 1
RoundShift(a, k) == RoundShiftOf(a, k, BigShr(a, k))

\* A double is [neg, m, p] with the value (-1)^neg * m * 2^(-p), m of at most
\* MantissaBits bits (or 2^MantissaBits after a carry).
FZero == [neg |-> FALSE, m |-> <<>>, p |-> 0]

FRoundBits(neg, n, p, len) ==
  IF len <= MantissaBits THEN [neg |-> neg, m |-> n, p |-> p]
  ELSE [neg |-> neg, m |-> RoundShift(n, len - MantissaBits),
        p |-> p - (len - MantissaBits)]

\* n * 2^(-p) rounded to a double
FRound(neg, n, p) == FRoundBits(neg, n, p, BitLen(n))

\* the quotient doubled, with the last bit set when the division left a
\* remainder (that bit is far below the rounding position)
WithSticky(qr) ==
  BigAdd(BigMulSmall(qr[1], 2), IF qr[2] = 0 THEN <<>> ELSE <<1>>)

\* the double nearest to x / 100, for an amount of x >= 0 cents
FOfCents(x) ==
  IF x = 0 THEN FZero
  ELSE FRound(FALSE, WithSticky(BigDivSmall(BigShl(BigOfInt(x), CentsShift), 100)),
              CentsShift + 1)

AddAligned(xneg, X, yneg, Y, P) ==
  IF xneg = yneg THEN FRound(xneg, BigAdd(X, Y), P)
  ELSE IF BigCmp(X, Y) >= 0 THEN FRound(xneg /\ BigCmp(X, Y) > 0, BigSub(X, Y), P)
  ELSE FRound(yneg, BigSub(Y, X), P)

MaxOf(a, b) == IF a >= b THEN a ELSE b

\* x + y and x - y, correctly rounded
FAdd(x, y) ==
  AddAligned(x.neg, BigShl(x.m, MaxOf(x.p, y.p) - x.p),
             y.neg, BigShl(y.m, MaxOf(x.p, y.p) - y.p), MaxOf(x.p, y.p))

FSub(x, y) == FAdd(x, [y EXCEPT !.neg = ~@])

FPositive(x) == x.m # <<>> /\ ~x.neg

\* x >= y
FGe(x, y) == ~FPositive(FSub(y, x))

RECURSIVE MulDigitsFrom(_, _, _)
MulDigitsFrom(a, b, i) ==
  IF i > Len(b) THEN <<>>
  ELSE BigAdd(ShiftLimbs(BigMulSmall(a, b[i]), i - 1), MulDigitsFrom(a, b, i + 1))

BigMul(a, b) == MulDigitsFrom(a, b, 1)

RECURSIVE IntOfDigits(_, _)
IntOfDigits(a, i) == IF i > Len(a) THEN 0 ELSE a[i] + Limb * IntOfDigits(a, i + 1)

\* x * y, correctly rounded
FMul(x, y) == FRound(x.neg # y.neg, BigMul(x.m, y.m), x.p + y.p)

\* x / d, correctly rounded, for an integer 0 < d <= Limb
FDivSmall(x, d) ==
  IF x.m = <<>> THEN x
  ELSE FRound(x.neg, WithSticky(BigDivSmall(BigShl(x.m, CentsShift), d)),
              x.p + CentsShift + 1)

FOfInt(n) == [neg |-> FALSE, m |-> BigOfInt(n), p |-> 0]

\* Math.round(x) for a double 0 <= x < 2^31 with x.p >= 0: the integer
\* nearest to x, halves upwards
FRoundHalfUp(x) ==
  IntOfDigits(BigShr(BigAdd(BigShl(x.m, 1), BigShl(<<1>>, x.p)), x.p + 1), 1)

\* the least k with k * S >= C, found from an estimate k
RECURSIVE LeastK(_, _, _)
LeastK(C, S, k) ==
  IF k > 0 /\ BigCmp(BigMulInt(S, k - 1), C) >= 0 THEN LeastK(C, S, k - 1)
  ELSE IF BigCmp(BigMulInt(S, k), C) < 0 THEN LeastK(C, S, k + 1)
  ELSE k

\* Math.ceil of the rounded quotient C / S, given k0 = the ceiling of the
\* exact quotient: the quotient rounds down to the integer k0 - 1 when it
\* exceeds it by at most half a unit in the last place
CeilRounded(C, S, k0) ==
  IF k0 <= 1 THEN k0
  ELSE IF BigCmp(BigShl(BigSub(C, BigMulInt(S, k0 - 1)),
                        MantissaBits + 1 - SmallBits(k0 - 1)), S) <= 0
    THEN k0 - 1
  ELSE k0

CeilAligned(C, S, estimate) == CeilRounded(C, S, LeastK(C, S, estimate))

\* Math.ceil(c / s) for doubles c > 0 and s > 0; estimate is any integer
FCeilQuot(c, s, estimate) ==
  CeilAligned(BigShl(c.m, MaxOf(c.p, s.p) - c.p),
              BigShl(s.m, MaxOf(c.p, s.p) - s.p), estimate)

\* ---- src/lib/amortization.ts ----

\* M = P r (1+r)^n / ((1+r)^n - 1) = P r / (1 - (1+r)^-n), rounded to cents
monthlyPayment(principal, annualRate, termMonths) ==
  IF principal <= 0 THEN 0
  ELSE IF termMonths <= 0 THEN 0
  ELSE IF annualRate <= 0 THEN RoundDiv(principal, termMonths)
  ELSE LET c  == BpPerMonthUnit + annualRate
           \* v = 1 / (1 + r)
           v  == RoundQuot(ShiftDiv(ShiftDiv(ShiftDiv(<<0, BpPerMonthUnit>>,
                                                     c, 8192), c, 8192), c, 16), c)
           d  == PowFix(v, termMonths)
           x  == principal * annualRate
           \* i0 = P r
           i0 == RoundQuot(ShiftDiv(ShiftDiv(<<x \div BpPerMonthUnit, x % BpPerMonthUnit>>,
                                             BpPerMonthUnit, 8192),
                                    BpPerMonthUnit, InterestShift \div 8192),
                           BpPerMonthUnit)
           ms == MulFix(i0, Recip(RecipScale, d, RecipSteps))
       IN  RoundDiv(ms, InterestShift \div (Scale \div RecipScale))

\* r = annualRate / 12 as a double, annualRate being the double nearest to
\* the decimal fraction of that many basis points
monthlyRate(annualRate) == FDivSmall(FDivSmall(FOfInt(annualRate), 10000), 12)

\* Math.round(balance * r * 100) in doubles
interestInDoubles(balance, annualRate) ==
  FRoundHalfUp(FMul(FMul(FOfCents(balance), monthlyRate(annualRate)), FOfInt(100)))

\* round2(balance * r) with r = annualRate / 12. The exact product is a
\* multiple of 1 / BpPerMonthUnit cents and the doubles are within 10^-8
\* cents of it, so the doubles decide the rounding only when the exact
\* product lies halfway between two cents.
monthInterest(balance, annualRate) ==
  IF annualRate <= 0 THEN 0
  ELSE IF (balance * annualRate) % BpPerMonthUnit # BpPerMonthUnit \div 2
    THEN RoundDiv(balance * annualRate, BpPerMonthUnit)
  ELSE interestInDoubles(balance, annualRate)

\* one iteration of the loop of amortizationSchedule, entered with balance
scheduleRow(balance, annualRate, pmt, m, termMonths) ==
  LET interest      == monthInterest(balance, annualRate)
      principalPaid == IF m = termMonths THEN balance ELSE pmt - interest
      newBal        == balance - principalPaid
  IN  [month |-> m,
       payment |-> IF m = termMonths THEN principalPaid + interest ELSE pmt,
       principalPaid |-> principalPaid,
       interestPaid |-> interest,
       remainingBalance |-> IF newBal < 0 THEN 0 ELSE newBal]

\* the rows of months m .. m + count - 1, entered with balance; the loop is
\* unrolled by halves (each half starts from the balance the one before left)
RECURSIVE scheduleRows(_, _, _, _, _, _)
scheduleRows(balance, annualRate, pmt, m, count, termMonths) ==
  IF count <= 0 THEN <<>>
  ELSE IF count = 1 THEN <<scheduleRow(balance, annualRate, pmt, m, termMonths)>>
  ELSE LET half == count \div 2
           left == scheduleRows(balance, annualRate, pmt, m, half, termMonths)
       IN  left \o scheduleRows(left[half].remainingBalance, annualRate, pmt,
                                m + half, count - half, termMonths)

amortizationSchedule(principal, annualRate, termMonths) ==
  scheduleRows(principal, annualRate,
               monthlyPayment(principal, annualRate, termMonths),
               1, termMonths, termMonths)

\* sum of interestPaid over rows lo..hi
RECURSIVE sumInterest(_, _, _)
sumInterest(schedule, lo, hi) ==
  IF lo > hi THEN 0
  ELSE IF lo = hi THEN schedule[lo].interestPaid
  ELSE LET mid == (lo + hi) \div 2
       IN  sumInterest(schedule, lo, mid) + sumInterest(schedule, mid + 1, hi)

totalInterestWithinMonths(schedule, k) ==
  sumInterest(schedule, 1, Min(k, Len(schedule)))

remainingBalanceAtMonth(schedule, k) ==
  IF k <= 0
    THEN (IF Len(schedule) > 0
            THEN schedule[1].remainingBalance + schedule[1].principalPaid
            ELSE 0)
  ELSE IF k >= Len(schedule) THEN 0
  ELSE schedule[k].remainingBalance

\* ---- break-even calculations (src/unnamed/part_002) ----

\* Math.ceil(closingCosts / monthlySavings)
CeilDiv(a, b) == (a + b - 1) \div b

\* the rest of simpleBreakEven, on the double monthlySavings
breakEvenOfSavings(closingCosts, monthlySavings, estimate) ==
  IF ~FPositive(monthlySavings) THEN NULL
  ELSE IF closingCosts <= 0 THEN Some(0)
  ELSE Some(FCeilQuot(FOfCents(closingCosts), monthlySavings, estimate))

\* the amounts are cents; the subtraction, the division and Math.ceil are
\* those of the doubles
simpleBreakEven(closingCosts, baselineMonthlyPayment, refiMonthlyPayment) ==
  breakEvenOfSavings(closingCosts,
                     FSub(FOfCents(baselineMonthlyPayment), FOfCents(refiMonthlyPayment)),
                     IF baselineMonthlyPayment > refiMonthlyPayment /\ closingCosts > 0
                       THEN CeilDiv(closingCosts, baselineMonthlyPayment - refiMonthlyPayment)
                       ELSE 1)

\* the doubles cumulativeSavings holds after each of the months m .. m + count - 1,
\* entered with the double acc (unrolled by halves, like the schedule)
RECURSIVE cumulativeSavingsFrom(_, _, _, _, _)
cumulativeSavingsFrom(baselineSchedule, refiSchedule, m, count, acc) ==
  IF count <= 0 THEN <<>>
  ELSE IF count = 1
    THEN <<FAdd(acc, FSub(FOfCents(baselineSchedule[m].interestPaid),
                          FOfCents(refiSchedule[m].interestPaid)))>>
  ELSE LET half == count \div 2
           left == cumulativeSavingsFrom(baselineSchedule, refiSchedule, m, half, acc)
       IN  left \o cumulativeSavingsFrom(baselineSchedule, refiSchedule, m + half,
                                         count - half, left[half])

\* cumulativeSavings >= closingCosts after month m; exactSum is the sum in
\* cents.  The double sum is within a fraction of a cent of the exact one, so
\* the rounding of the additions decides only when the two amounts are equal
reachesCosts(baselineSchedule, refiSchedule, closingCosts, m, exactSum) ==
  IF exactSum # closingCosts THEN exactSum > closingCosts
  ELSE FGe(cumulativeSavingsFrom(baselineSchedule, refiSchedule, 1, m, FZero)[m],
           FOfCents(closingCosts))

\* the loop of trueBreakEven over months lo..hi, entered with the running sum
\* cumulativeSavings: the first month at which the sum reaches closingCosts
RECURSIVE breakEvenWalk(_, _, _, _, _, _)
breakEvenWalk(baselineSchedule, refiSchedule, closingCosts, lo, hi, cumulativeSavings) ==
  IF lo > hi THEN NULL
  ELSE IF lo = hi
    THEN (IF reachesCosts(baselineSchedule, refiSchedule, closingCosts, lo,
                          cumulativeSavings + baselineSchedule[lo].interestPaid
                            - refiSchedule[lo].interestPaid)
            THEN Some(lo) ELSE NULL)
  ELSE LET mid   == (lo + hi) \div 2
           first == breakEvenWalk(baselineSchedule, refiSchedule, closingCosts,
                                  lo, mid, cumulativeSavings)
       IN  IF ~IsNull(first) THEN first
           ELSE breakEvenWalk(baselineSchedule, refiSchedule, closingCosts,
                              mid + 1, hi,
                              cumulativeSavings
                                + sumInterest(baselineSchedule, lo, mid)
                                - sumInterest(refiSchedule, lo, mid))

\* variant: the walk runs to the end of the shorter schedule
trueBreakEven_noHorizon(baselineSchedule, refiSchedule, closingCosts, horizonMonths) ==
  IF closingCosts <= 0 THEN Some(0)
  ELSE breakEvenWalk(baselineSchedule, refiSchedule, closingCosts, 1,
                     Min(Len(baselineSchedule), Len(refiSchedule)), 0)

trueBreakEven(baselineSchedule, refiSchedule, closingCosts, horizonMonths) ==
  IF closingCosts <= 0 THEN Some(0)
  ELSE breakEvenWalk(baselineSchedule, refiSchedule, closingCosts, 1,
                     Min(horizonMonths, Min(Len(baselineSchedule), Len(refiSchedule))),
                     0)

\* ---- scored lender rates (src/lib/lender-rates.ts, first half) ----

\* colorOrder[color] ?? 2
colorOrder(color) ==
  CASE color = "green" -> 0 [] color = "yellow" -> 1 [] color = "red" -> 2 [] OTHER -> 2

\* the comparator of lines 154-158; the difference of two amounts has the
\* sign of the difference of their cents
compareScored(a, b) ==
  IF colorOrder(a.verdict.color) - colorOrder(b.verdict.color) # 0
    THEN colorOrder(a.verdict.color) - colorOrder(b.verdict.color)
    ELSE b.totalSavings - a.totalSavings

\* Array.prototype.sort is stable: an element goes behind all that do not
\* compare greater than it
RECURSIVE insertScored(_, _)
insertScored(sorted, x) ==
  IF sorted = <<>> THEN <<x>>
  ELSE IF compareScored(sorted[Len(sorted)], x) <= 0 THEN Append(sorted, x)
  ELSE Append(insertScored(SubSeq(sorted, 1, Len(sorted) - 1), x), sorted[Len(sorted)])

RECURSIVE sortedPrefix(_, _)
sortedPrefix(rates, n) ==
  IF n = 0 THEN <<>> ELSE insertScored(sortedPrefix(rates, n - 1), rates[n])

\* variant: rates.sort(...) without the copy
sortScoredRates_inPlace(rates) ==
  [rates |-> sortedPrefix(rates, Len(rates)), returned |-> sortedPrefix(rates, Len(rates))]

\* [...rates].sort(...): the argument array after the call and the array returned
sortScoredRates(rates) ==
  [rates |-> rates, returned |-> sortedPrefix(rates, Len(rates))]

\* ---- scenario engine (src/lib/lender-rates.ts, second half) ----

Term15 == 180
Term30 == 360
\* "Y > 15" in eighths of a year
FifteenYears == 120

\* Math.round(Y * 12) for Y = y8 / 8: Y * 12 = 1.5 * y8, a half rounds up
roundMonths(y8) == (3 * y8 + 1) \div 2

resolveHorizon(in) ==
  IF IsNull(in.horizonOverrideMonths)
    THEN roundMonths(in.yearsRemaining)
    ELSE Val(in.horizonOverrideMonths)

\* variant: the payments are counted over the whole horizon
horizonCap_noMin(horizonMonths, termMonths) == horizonMonths

\* k = Math.min(horizonMonths, termMonths)
horizonCap(horizonMonths, termMonths) == Min(horizonMonths, termMonths)

\* the body of buildScenario after its first two statements, which computed
\* pmt and schedule
scenarioResult(id, rate, termMonths, horizonMonths, fees, baselinePayment, baselineSchedule, pmt, schedule) ==
  LET k        == horizonCap(horizonMonths, termMonths)
      interestInHorizon == totalInterestWithinMonths(schedule, k)
      remBalance ==
        IF termMonths <= horizonMonths THEN 0
        ELSE remainingBalanceAtMonth(schedule, horizonMonths)
      paymentsWithinHorizon    == pmt * k
      cashOutflowWithinHorizon == fees + paymentsWithinHorizon
      netCostAtHorizon         == cashOutflowWithinHorizon + remBalance
      monthlyDelta             == pmt - baselinePayment
      baselineInterest ==
        IF Len(baselineSchedule) > 0
          THEN totalInterestWithinMonths(baselineSchedule, horizonMonths)
          ELSE 0
      baselineNetCost     == baselineInterest
      thisLegacyCost      == interestInHorizon + fees
      netSavingsAtHorizon == baselineNetCost - thisLegacyCost
      cashflowBE == simpleBreakEven(fees, baselinePayment, pmt)
      interestBE ==
        IF Len(baselineSchedule) > 0
          THEN trueBreakEven(baselineSchedule, schedule, fees, horizonMonths)
          ELSE NULL
  IN  [id |-> id,
       rate |-> rate,
       termMonths |-> termMonths,
       monthlyPayment |-> pmt,
       monthlyDelta |-> monthlyDelta,
       interestWithinHorizon |-> interestInHorizon,
       fees |-> fees,
       remainingBalanceAtHorizon |-> remBalance,
       paymentsWithinHorizon |-> paymentsWithinHorizon,
       cashOutflowWithinHorizon |-> cashOutflowWithinHorizon,
       netCostAtHorizon |-> netCostAtHorizon,
       netSavingsAtHorizon |-> netSavingsAtHorizon,
       cashflowBreakEvenMonths |-> cashflowBE,
       interestBreakEvenMonths |-> interestBE,
       isBestLongTerm |-> FALSE,
       warnings |-> <<>>]

buildScenario(id, principal, rate, termMonths, horizonMonths, fees, baselinePayment, baselineSchedule) ==
  scenarioResult(id, rate, termMonths, horizonMonths, fees, baselinePayment, baselineSchedule,
                 monthlyPayment(principal, rate, termMonths),
                 amortizationSchedule(principal, rate, termMonths))

\* variant: the label follows the horizon, not the presence of an override
termResetWarning_byHorizon(in, sc30) ==
  IF sc30.remainingBalanceAtHorizon > 0
    THEN (IF resolveHorizon(in) >= roundMonths(in.yearsRemaining)
            THEN [sc30 EXCEPT !.warnings = Append(@, "Term Reset Trap")]
            ELSE [sc30 EXCEPT !.warnings = Append(@, "Term Reset Tradeoff")])
    ELSE sc30

\* the refi_30yr scenario with its term-reset warning
termResetWarning(in, sc30) ==
  IF sc30.remainingBalanceAtHorizon > 0
    THEN (IF IsNull(in.horizonOverrideMonths) \/ Val(in.horizonOverrideMonths) = 0
            THEN [sc30 EXCEPT !.warnings = Append(@, "Term Reset Trap")]
            ELSE [sc30 EXCEPT !.warnings = Append(@, "Term Reset Tradeoff")])
    ELSE sc30

\* variant: the savings of the baseline are left as buildScenario computed them
finalizeBaseline_keepSavings(built) ==
  [built EXCEPT !.monthlyDelta = 0,
                !.cashflowBreakEvenMonths = NULL,
                !.interestBreakEvenMonths = NULL]

\* "Finalize baseline deltas (always 0 vs itself)"
finalizeBaseline(built) ==
  [built EXCEPT !.monthlyDelta = 0,
                !.netSavingsAtHorizon = 0,
                !.cashflowBreakEvenMonths = NULL,
                !.interestBreakEvenMonths = NULL]

\* the three inclusion tests
includeSameTerm(in) == in.refiRateSameTerm < in.currentAnnualRate
\* variants: a 15-year rate equal to the current rate counts as lower; exactly
\* 15 years remaining counts as more than 15
include15yr_leRate(in) ==
  in.yearsRemaining > FifteenYears /\ in.refiRate15yr <= in.currentAnnualRate
include15yr_geYears(in) ==
  in.yearsRemaining >= FifteenYears /\ in.refiRate15yr < in.currentAnnualRate
include15yr(in) ==
  in.yearsRemaining > FifteenYears /\ in.refiRate15yr < in.currentAnnualRate
include30yr(in) == in.refiRate30yr < in.currentAnnualRate

\* the scenario list, from the baseline as buildScenario returned it and the
\* baseline reference schedule: the baseline finalized, then each refinance
\* option that passes its inclusion test
scenarioList(in, built, baseSchedule) ==
  LET B     == in.remainingBalance
      F     == in.closingCosts
      N        == resolveHorizon(in)
      fullTerm == roundMonths(in.yearsRemaining)
      basePayment == built.monthlyPayment
      sameTerm ==
        IF includeSameTerm(in)
          THEN <<buildScenario("refi_same_term", B, in.refiRateSameTerm, fullTerm,
                               N, F, basePayment, baseSchedule)>>
          ELSE <<>>
      fifteen ==
        IF include15yr(in)
          THEN <<buildScenario("refi_15yr", B, in.refiRate15yr, Term15,
                               N, F, basePayment, baseSchedule)>>
          ELSE <<>>
      thirty ==
        IF include30yr(in)
          THEN <<termResetWarning(in,
                   buildScenario("refi_30yr", B, in.refiRate30yr, Term30,
                                 N, F, basePayment, baseSchedule))>>
          ELSE <<>>
  IN  <<finalizeBaseline(built)>> \o sameTerm \o fifteen \o thirty

generateScenarios(in) ==
  LET B     == in.remainingBalance
      rc    == in.currentAnnualRate
      N        == resolveHorizon(in)
      fullTerm == roundMonths(in.yearsRemaining)
  IN  scenarioList(in,
                   buildScenario("stay_current", B, rc, fullTerm, N, 0, 0, <<>>),
                   amortizationSchedule(B, rc, fullTerm))

\* ---- comparison and verdict logic (src/lib/comparison.ts) ----

GreenRatioPct == 33
YellowRatioPct == 67
GreenPerYear == 200
YellowPerYear == 50

\* [...scenarios].sort((a, b) => a.netCostAtHorizon - b.netCostAtHorizon):
\* a stable sort, elements that compare equal keep their order
\* variant: an unstable sort, a later scenario goes before its equals
RECURSIVE insertRanked_unstable(_, _)
insertRanked_unstable(ranked, s) ==
  IF ranked = <<>> THEN <<s>>
  ELSE IF ranked[Len(ranked)].netCostAtHorizon < s.netCostAtHorizon
    THEN Append(ranked, s)
  ELSE Append(insertRanked_unstable(SubSeq(ranked, 1, Len(ranked) - 1), s),
              ranked[Len(ranked)])

RECURSIVE insertRanked(_, _)
insertRanked(ranked, s) ==
  IF ranked = <<>> THEN <<s>>
  ELSE IF ranked[Len(ranked)].netCostAtHorizon <= s.netCostAtHorizon
    THEN Append(ranked, s)
  ELSE Append(insertRanked(SubSeq(ranked, 1, Len(ranked) - 1), s), ranked[Len(ranked)])

RECURSIVE rankPrefix(_, _)
rankPrefix(scenarios, n) ==
  IF n = 0 THEN <<>> ELSE insertRanked(rankPrefix(scenarios, n - 1), scenarios[n])

rankScenarios(scenarios) == rankPrefix(scenarios, Len(scenarios))

\* variant: no warning is ever found
hasPaymentIncrease_never(warnings) == FALSE

hasPaymentIncrease(warnings) ==
  \E i \in 1..Len(warnings) : warnings[i] = "Payment Increase Warning"

selectWinner(ranked, baseline) ==
  IF Len(ranked) = 0 THEN baseline
  ELSE LET best == ranked[1]
       IN  IF best.id = "stay_current" THEN baseline
           ELSE IF best.monthlyPayment > baseline.monthlyPayment
                   /\ ~hasPaymentIncrease(best.warnings)
             THEN [best EXCEPT !.warnings = Append(@, "Payment Increase Warning")]
           ELSE best

\* variant: savings equal to the threshold pass it
aboveSavingsThreshold_ge(netSavings, perYear, horizonMonths) ==
  12 * netSavings >= 100 * perYear * horizonMonths

\* amounts are cents: netSavings / 100 > perYear * (horizonMonths / 12)
aboveSavingsThreshold(netSavings, perYear, horizonMonths) ==
  12 * netSavings > 100 * perYear * horizonMonths

\* variant: the comparison the other way round
belowRatio_gt(breakEven, pct, horizonMonths) ==
  100 * breakEven > pct * horizonMonths

\* variant: a ratio equal to the threshold passes it
belowRatio_le(breakEven, pct, horizonMonths) ==
  100 * breakEven <= pct * horizonMonths

\* breakEven / horizonMonths < pct / 100 (false for 0 / 0)
belowRatio(breakEven, pct, horizonMonths) ==
  100 * breakEven < pct * horizonMonths

\* variant: no null test, a null break-even is used as the number 0
determineColor_nullAsZero(breakEven, netSavings, horizonMonths) ==
  LET be == IF IsNull(breakEven) THEN 0 ELSE Val(breakEven)
  IN  IF netSavings < 0 THEN "red"
      ELSE IF be > horizonMonths THEN "red"
      ELSE IF belowRatio(be, GreenRatioPct, horizonMonths)
              /\ aboveSavingsThreshold(netSavings, GreenPerYear, horizonMonths)
        THEN "green"
      ELSE IF belowRatio(be, YellowRatioPct, horizonMonths)
              /\ aboveSavingsThreshold(netSavings, YellowPerYear, horizonMonths)
        THEN "yellow"
      ELSE "red"

determineColor(breakEven, netSavings, horizonMonths) ==
  IF IsNull(breakEven) \/ netSavings < 0 THEN "red"
  ELSE IF Val(breakEven) > horizonMonths THEN "red"
  ELSE IF belowRatio(Val(breakEven), GreenRatioPct, horizonMonths)
          /\ aboveSavingsThreshold(netSavings, GreenPerYear, horizonMonths)
    THEN "green"
  ELSE IF belowRatio(Val(breakEven), YellowRatioPct, horizonMonths)
          /\ aboveSavingsThreshold(netSavings, YellowPerYear, horizonMonths)
    THEN "yellow"
  ELSE "red"

verdictLabel(color) ==
  CASE color = "green" -> "Refinance Looks Strong"
    [] color = "yellow" -> "Worth a Closer Look"
    [] OTHER -> "Stay With Your Current Loan"

\* variants: the thresholds are applied to a baseline winner too; the verdict
\* names the baseline instead of the winner
generateVerdict_noBaselineCase(winner, baseline, horizonMonths) ==
  LET breakEven ==
        IF IsNull(winner.interestBreakEvenMonths)
          THEN winner.cashflowBreakEvenMonths
          ELSE winner.interestBreakEvenMonths
      netSavings == winner.netSavingsAtHorizon
      color == determineColor(breakEven, netSavings, horizonMonths)
  IN  [color |-> color,
       label |-> verdictLabel(color),
       breakEvenMonths |-> breakEven,
       monthlyDelta |-> winner.monthlyDelta,
       netSavings |-> netSavings,
       bestScenarioId |-> winner.id]

generateVerdict_baselineId(winner, baseline, horizonMonths) ==
  LET v == generateVerdict_noBaselineCase(winner, baseline, horizonMonths)
  IN  IF winner.id = "stay_current"
        THEN [color |-> "red",
              label |-> "Stay With Your Current Loan",
              breakEvenMonths |-> NULL,
              monthlyDelta |-> 0,
              netSavings |-> 0,
              bestScenarioId |-> "stay_current"]
        ELSE [v EXCEPT !.bestScenarioId = baseline.id]

\* variant: the fallback written with || instead of ??, so an interest
\* break-even of 0 falls back to the cashflow break-even too
generateVerdict_orFallback(winner, baseline, horizonMonths) ==
  IF winner.id = "stay_current"
    THEN [color |-> "red",
          label |-> "Stay With Your Current Loan",
          breakEvenMonths |-> NULL,
          monthlyDelta |-> 0,
          netSavings |-> 0,
          bestScenarioId |-> "stay_current"]
  ELSE generateVerdict_noBaselineCase(
         [winner EXCEPT !.interestBreakEvenMonths = IF @ = Some(0) THEN NULL ELSE @],
         baseline, horizonMonths)

generateVerdict(winner, baseline, horizonMonths) ==
  IF winner.id = "stay_current"
    THEN [color |-> "red",
          label |-> "Stay With Your Current Loan",
          breakEvenMonths |-> NULL,
          monthlyDelta |-> 0,
          netSavings |-> 0,
          bestScenarioId |-> "stay_current"]
  ELSE LET breakEven ==
             IF IsNull(winner.interestBreakEvenMonths)
               THEN winner.cashflowBreakEvenMonths
               ELSE winner.interestBreakEvenMonths
           netSavings == winner.netSavingsAtHorizon
           color == determineColor(breakEven, netSavings, horizonMonths)
       IN  [color |-> color,
            label |-> verdictLabel(color),
            breakEvenMonths |-> breakEven,
            monthlyDelta |-> winner.monthlyDelta,
            netSavings |-> netSavings,
            bestScenarioId |-> winner.id]

\* scenarios.find((s) => s.id === "stay_current")
RECURSIVE findById(_, _, _)
findById(scenarios, id, i) ==
  IF scenarios[i].id = id THEN scenarios[i] ELSE findById(scenarios, id, i + 1)

\* the winner is one of the objects of scenarios: a warning pushed on it
\* shows in the list, then every scenario gets its flag
engineOutput(N, scenarios, baseline, winner) ==
  [horizonMonths |-> N,
   scenarios |-> [i \in 1..Len(scenarios) |->
                    IF scenarios[i].id = winner.id
                      THEN [winner EXCEPT !.isBestLongTerm = TRUE]
                      ELSE [scenarios[i] EXCEPT !.isBestLongTerm = FALSE]],
   verdict |-> generateVerdict([winner EXCEPT !.isBestLongTerm = TRUE], baseline, N)]

\* ranking, baseline lookup and winner selection over the generated list
rankAndSelect(N, scenarios) ==
  engineOutput(N, scenarios, findById(scenarios, "stay_current", 1),
               selectWinner(rankScenarios(scenarios),
                            findById(scenarios, "stay_current", 1)))

runEngine(in) == rankAndSelect(resolveHorizon(in), generateScenarios(in))

\* ---- internal rate of return (src/unnamed/part_003) ----
\* Monthly rates are in thousandths. NPV(r) has the sign of the cash flows
\* carried forward to month N at 1 + r, which is computed exactly in units
\* of 1 / RateUnit^N cents. The root that the bisection locates is
\* represented by the bracket in which the bisection starts.
RateUnit == 1000
BracketLo == -80
BracketHi == 2000
WideLo == -99

\* integers of any size: sign and magnitude
SInt(n) == [neg |-> n < 0, m |-> BigOfInt(IF n < 0 THEN -n ELSE n)]

SignedSum(xneg, X, yneg, Y, order) ==
  IF xneg = yneg THEN [neg |-> xneg, m |-> BigAdd(X, Y)]
  ELSE IF order = 0 THEN [neg |-> FALSE, m |-> <<>>]
  ELSE IF order > 0 THEN [neg |-> xneg, m |-> BigSub(X, Y)]
  ELSE [neg |-> yneg, m |-> BigSub(Y, X)]

SAdd(x, y) == SignedSum(x.neg, x.m, y.neg, y.m, BigCmp(x.m, y.m))

\* x * k for an integer k > 0, and x * B for a natural number B > 0
SScale(x, k) == [neg |-> x.neg, m |-> BigMulInt(x.m, k)]

SOfProduct(n, B) == [neg |-> n < 0, m |-> BigMulInt(B, IF n < 0 THEN -n ELSE n)]

\* the cash flow of month t: the payment delta while the refinance runs,
\* the whole baseline payment after its payoff
cashFlow(t, k, paymentDelta, basePmt) == IF t <= k THEN paymentDelta ELSE basePmt

\* <<W, RateUnit^N>>: the cash flows of months t..N added to the value W
\* carried to month t - 1, u being 1 + r in thousandths
RECURSIVE carriedForward(_, _, _, _, _, _, _, _)
carriedForward(W, unitPow, t, N, k, paymentDelta, basePmt, u) ==
  IF t > N THEN <<W, unitPow>>
  ELSE carriedForward(SAdd(SScale(W, u),
                           SOfProduct(cashFlow(t, k, paymentDelta, basePmt),
                                      BigMulInt(unitPow, RateUnit))),
                      BigMulInt(unitPow, RateUnit), t + 1, N, k, paymentDelta, basePmt, u)

withBalance(carried, balanceSaved) == SAdd(carried[1], SOfProduct(balanceSaved, carried[2]))

\* npv(r, ...) >= 0
npvNonNegative(r, fees, refiPmt, basePmt, refiTerm, balanceSaved, N) ==
  IF r = 0
    THEN -fees + (basePmt - refiPmt) * Min(refiTerm, N)
           + basePmt * (N - Min(refiTerm, N)) + balanceSaved >= 0
  ELSE ~withBalance(carriedForward(SInt(-fees), <<1>>, 1, N, Min(refiTerm, N),
                                   basePmt - refiPmt, basePmt, RateUnit + r),
                    balanceSaved).neg

IRRInfinity == [kind |-> "Infinity"]

\* the lower end of the first bracket over which NPV changes sign
irrBracket(npvLo, npvWide, npvZero, npvHi) ==
  IF npvLo # npvHi THEN Some(BracketLo)
  ELSE IF npvWide # npvHi THEN Some(WideLo)
  ELSE IF npvZero # npvHi THEN Some(0)
  ELSE NULL

irrOfBracket(lo) ==
  IF lo = NULL THEN NULL ELSE [kind |-> "root", lo |-> lo[1], hi |-> BracketHi]

computeIRR(fees, refiPmt, basePmt, refiTerm, balanceSaved, horizonMonths) ==
  IF horizonMonths <= 0 THEN NULL
  ELSE IF fees <= 0 THEN IRRInfinity
  ELSE irrOfBracket(irrBracket(
         npvNonNegative(BracketLo, fees, refiPmt, basePmt, refiTerm, balanceSaved, horizonMonths),
         npvNonNegative(WideLo, fees, refiPmt, basePmt, refiTerm, balanceSaved, horizonMonths),
         npvNonNegative(0, fees, refiPmt, basePmt, refiTerm, balanceSaved, horizonMonths),
         npvNonNegative(BracketHi, fees, refiPmt, basePmt, refiTerm, balanceSaved, horizonMonths)))

\* ---- the bisection loop of computeIRR (src/unnamed/part_003) ----
\* Every point the loop visits is a dyadic fraction of a thousandth. A
\* point r is held as the numerator of 1 + r over RateUnit * 2^e, a natural
\* number of any size; lo and hi share the exponent e, which grows by one
\* with every midpoint. NPV(r) is evaluated exactly: its value carried to
\* month N, in units of 1 / (RateUnit * 2^e)^N cents, and the discount
\* factor (1 + r)^N in the same units. The loop compares NPV with zero and
\* |NPV| with one cent (0.01 dollars).
MaxIterations == 100

\* the locals while computeIRR is not in its loop
NoLoop == [i |-> -1]

\* 1 + r for r in thousandths, over RateUnit * 2^e
onePlus(r, e) == BigShl(BigOfInt(RateUnit + r), e)

rateDenominator(e) == BigShl(BigOfInt(RateUnit), e)

SMul(x, B) == [neg |-> x.neg, m |-> BigMul(x.m, B)]

\* <<W, D^N, u^N>>: the cash flows of months t..N added to the value W
\* carried to month t - 1, for 1 + r = u / D
RECURSIVE carriedForwardAt(_, _, _, _, _, _, _, _, _, _)
carriedForwardAt(W, unitPow, uPow, t, N, k, paymentDelta, basePmt, u, D) ==
  IF t > N THEN <<W, unitPow, uPow>>
  ELSE carriedForwardAt(SAdd(SMul(W, u),
                             SOfProduct(cashFlow(t, k, paymentDelta, basePmt),
                                        BigMul(unitPow, D))),
                        BigMul(unitPow, D), BigMul(uPow, u), t + 1, N, k,
                        paymentDelta, basePmt, u, D)

npvOf(carried, balanceSaved) ==
  [value |-> withBalance(<<carried[1], carried[2]>>, balanceSaved),
   discount |-> carried[3]]

\* npv(r, ...) for 1 + r = u / (RateUnit * 2^e)
npv(u, e, fees, refiPmt, basePmt, refiTerm, balanceSaved, N) ==
  npvOf(carriedForwardAt(SInt(-fees), <<1>>, <<1>>, 1, N, Min(refiTerm, N),
                         basePmt - refiPmt, basePmt, u, rateDenominator(e)),
        balanceSaved)

\* npv >= 0
nonNegative(v) == ~v.value.neg

\* Math.abs(npv) < 0.01
withinCent(v) == BigCmp(v.value.m, v.discount) < 0

\* the locals on entry to the loop, or NULL where computeIRR returns null
bracketSearch(npvFirst, npvWide, npvZero, npvHi) ==
  IF npvFirst # npvHi
    THEN Some([lo |-> onePlus(BracketLo, 0), hi |-> onePlus(BracketHi, 0), e |-> 0,
               npvLo |-> npvFirst, npvHi |-> npvHi, i |-> 0])
  ELSE IF npvWide # npvHi
    THEN Some([lo |-> onePlus(WideLo, 0), hi |-> onePlus(BracketHi, 0), e |-> 0,
               npvLo |-> npvWide, npvHi |-> npvHi, i |-> 0])
  ELSE IF npvZero # npvHi
    THEN Some([lo |-> onePlus(0, 0), hi |-> onePlus(BracketHi, 0), e |-> 0,
               npvLo |-> npvZero, npvHi |-> npvHi, i |-> 0])
  ELSE NULL

\* (lo + hi) / 2 over RateUnit * 2^(e + 1)
midpoint(loop) == BigAdd(loop.lo, loop.hi)

\* the monthly rate that computeIRR annualises and returns
rootAt(u, e, iterations) ==
  [kind |-> "root", onePlusRate |-> u, e |-> e, iterations |-> iterations]

\* the loop keeping the half over which NPV does not change sign
narrowed_otherHalf(loop, mid, npvMid) ==
  IF npvMid = loop.npvLo
    THEN [loop EXCEPT !.lo = BigShl(loop.lo, 1), !.hi = mid, !.e = loop.e + 1,
                      !.i = loop.i + 1]
  ELSE [loop EXCEPT !.lo = mid, !.hi = BigShl(loop.hi, 1), !.e = loop.e + 1,
                    !.npvLo = npvMid, !.i = loop.i + 1]

\* the half of the bracket that the loop keeps
narrowed(loop, mid, npvMid) ==
  IF npvMid = loop.npvLo
    THEN [loop EXCEPT !.lo = mid, !.hi = BigShl(loop.hi, 1), !.e = loop.e + 1,
                      !.npvLo = npvMid, !.i = loop.i + 1]
  ELSE [loop EXCEPT !.lo = BigShl(loop.lo, 1), !.hi = mid, !.e = loop.e + 1,
                    !.i = loop.i + 1]

\* one pass of the loop body: <<locals, result>>, the result being NULL
\* while the loop goes on
bisectionStep(loop, mid, v) ==
  IF withinCent(v) THEN <<NoLoop, rootAt(mid, loop.e + 1, loop.i)>>
  ELSE IF loop.i + 1 < MaxIterations
    THEN <<narrowed(loop, mid, nonNegative(v)), NULL>>
  ELSE <<NoLoop, rootAt(midpoint(narrowed(loop, mid, nonNegative(v))),
                        loop.e + 2, loop.i + 1)>>

\* ---- rate provenance service (src/lib/pmms.ts) ----
\* A rate is held as the hundredths of a percentage point of its decimal
\* numeral and stands for the double nearest to it (what parseFloat returns);
\* times are in hours. A thrown error is a result with thrown = TRUE.
\* clearRateCache is test support that the program never calls; it is an
\* action only of the specification SpecRatesCleared.
CACHE_TTL_HOURS == 6
MinRatePts == 2
MaxRatePts == 15
MaxChangePts == 3

RateData(fixed_30yr, fixed_15yr, at) ==
  [source |-> "freddie_mac_pmms", fetched_at |-> at,
   rates |-> [fixed_30yr |-> fixed_30yr, fixed_15yr |-> fixed_15yr]]

Thrown(message) == [thrown |-> TRUE, message |-> message, value |-> NULL]

Returned(value) == [thrown |-> FALSE, message |-> "", value |-> Some(value)]

\* rate < 2 || rate > 15 for the double of a numeral: the conversion is
\* monotone and 2 and 15 are doubles, so the numerals compare the same way
outsideRange(rate) == rate < 100 * MinRatePts \/ rate > 100 * MaxRatePts

\* fetchPMMSRates once the request has settled with outcome, at time at. The
\* captured group (\d+\.\d+) always parses to a number, so the NaN check
\* of lines 54-58 never throws.
fetchPMMSRates(outcome, at) ==
  IF outcome.kind # "response" THEN Thrown(outcome.kind)
  ELSE IF ~(outcome.status \in 200..299) THEN Thrown("HTTP")
  ELSE IF outcome.rate30Match = NULL \/ outcome.rate15Match = NULL THEN Thrown("parse")
  ELSE IF outsideRange(outcome.rate30Match[1]) THEN Thrown("30yr range")
  ELSE IF outsideRange(outcome.rate15Match[1]) THEN Thrown("15yr range")
  ELSE Returned(RateData(outcome.rate30Match[1], outcome.rate15Match[1], at))

FAbs(x) == [x EXCEPT !.neg = FALSE]

\* Math.abs(fresh - existing) > maxChangePts, in doubles
changeExceeds(fresh, existing, maxChangePts) ==
  FPositive(FSub(FAbs(FSub(FOfCents(fresh), FOfCents(existing))), FOfInt(maxChangePts)))

\* the valid flag of validateRateChange
validateRateChange(fresh, existing, maxChangePts) ==
  ~(\/ changeExceeds(fresh.rates.fixed_30yr, existing.rates.fixed_30yr, maxChangePts)
    \/ changeExceeds(fresh.rates.fixed_15yr, existing.rates.fixed_15yr, maxChangePts))

cacheFresh_le(cache, t) == cache # NULL /\ t - cache[1].fetchedAt <= CACHE_TTL_HOURS

\* rateCache && Date.now() - rateCache.fetchedAt < CACHE_TTL_MS
cacheFresh(cache, t) == cache # NULL /\ t - cache[1].fetchedAt < CACHE_TTL_HOURS

\* variant: no anomaly check
afterFetch_unchecked(fresh, fallback) ==
  IF fresh.thrown THEN [rates |-> fallback, source |-> "fallback"]
  ELSE [rates |-> fresh.value[1], source |-> "live"]

\* what getLatestRates returns once fetchPMMSRates has settled with fresh
afterFetch(fresh, fallback) ==
  IF fresh.thrown THEN [rates |-> fallback, source |-> "fallback"]
  ELSE IF ~validateRateChange(fresh.value[1], fallback, MaxChangePts)
    THEN [rates |-> fallback, source |-> "fallback"]
  ELSE [rates |-> fresh.value[1], source |-> "live"]

fetchesAfterMiss_shared(count, inFlight) == IF inFlight = {} THEN count + 1 ELSE count

\* the number of requests sent, after a call that missed the cache while
\* the callers inFlight were waiting for theirs
fetchesAfterMiss(count, inFlight) == count + 1

\* ---- rate alerts (src/app/api/rate-alert/route.ts, src/unnamed/part_007,
\* ---- src/scripts/check_alerts.ts) ----
\* The alert file data/rate-alerts.json is a sequence of alert records; every
\* readFileSync and writeFileSync of it is taken as one atomic step. An
\* alert's id and created_at are both its creation number (randomUUID is
\* fresh, the clock moves between two creations); notified_at is NULL when
\* the property is absent and Some(run) when the job's run number `run` set
\* it. Trigger rates are fractions in units of 1/10000, the 30-year rate of
\* data/rates.json is a percentage in hundredths.

\* 0.15 and 1 as trigger rates
MaxTriggerRate == 1500
TriggerUnit == 10000

\* email.toLowerCase().trim() on the addresses of the checked input space
toLowerCaseTrim(email) == IF email = "U@x.io" THEN "u@x.io" ELSE email

\* the regular expression of route.ts line 41
emailValid(email) == email # "nobody"

\* a 12-digit prefix of SHA-256, taken as free of collisions
hashEmail(email) == <<"sha256", toLowerCaseTrim(email)>>

\* the first index of seq whose element is in the set S of indices, or 0
RECURSIVE firstIndexIn(_, _)
firstIndexIn(S, i) == IF S = {} THEN 0 ELSE IF i \in S THEN i ELSE firstIndexIn(S, i + 1)

newAlert(id, email, triggerRate, createdAt) ==
  [id |-> id, email |-> email, trigger_rate |-> triggerRate, created_at |-> createdAt,
   notified_at |-> NULL, unsubscribed |-> FALSE]

rejected(status, alerts) == [status |-> status, alerts |-> alerts, alert |-> 0, saved |-> FALSE]

\* POST /api/rate-alert on the file content alerts: the response status, the
\* file content afterwards, and the id of the alert updated or created
postRateAlert(alerts, body, uuid, clock) ==
  IF ~emailValid(body.email) THEN rejected(400, alerts)
  ELSE IF body.triggerRate <= 0 \/ body.triggerRate > MaxTriggerRate THEN rejected(400, alerts)
  ELSE IF body.currentRate <= 0 THEN rejected(400, alerts)
  ELSE LET normalizedEmail == toLowerCaseTrim(body.email)
           existing == firstIndexIn({i \in 1..Len(alerts) :
                          /\ hashEmail(alerts[i].email) = hashEmail(normalizedEmail)
                          /\ ~alerts[i].unsubscribed}, 1)
       IN IF existing # 0
            THEN [status |-> 200,
                  alerts |-> [alerts EXCEPT ![existing].trigger_rate = body.triggerRate],
                  alert |-> alerts[existing].id, saved |-> TRUE]
            ELSE [status |-> 200,
                  alerts |-> Append(alerts, newAlert(uuid, normalizedEmail, body.triggerRate, clock)),
                  alert |-> uuid, saved |-> TRUE]

\* the most recently created alert among the indices S; of two created at
\* the same time the stable sort keeps the earlier in the file
mostRecent(alerts, S) ==
  firstIndexIn({i \in S : \A j \in S : alerts[j].created_at <= alerts[i].created_at}, 1)

\* the alert POST /api/unsubscribe acts on (lines 49-59), as an index or 0
findAlert(alerts, body) ==
  IF body.token # NULL
    THEN firstIndexIn({i \in 1..Len(alerts) : alerts[i].id = body.token[1]}, 1)
    ELSE mostRecent(alerts, {i \in 1..Len(alerts) :
                               alerts[i].email = toLowerCaseTrim(body.email[1])})

\* POST /api/unsubscribe (src/unnamed/part_007 lines 33-78)
postUnsubscribe(alerts, body) ==
  IF body.token = NULL /\ body.email = NULL THEN rejected(400, alerts)
  ELSE IF findAlert(alerts, body) = 0 THEN rejected(404, alerts)
  ELSE [status |-> 200,
        alerts |-> IF body.resubscribe
                     THEN [alerts EXCEPT ![findAlert(alerts, body)].unsubscribed = FALSE,
                                         ![findAlert(alerts, body)].notified_at = NULL]
                     ELSE [alerts EXCEPT ![findAlert(alerts, body)].unsubscribed = TRUE],
        alert |-> alerts[findAlert(alerts, body)].id, saved |-> TRUE]

\* currentRate30yr <= a.trigger_rate in doubles (check_alerts.ts line 198),
\* with currentRate30yr = rates.rates.fixed_30yr / 100 (line 180)
rateAtOrBelow(fixed30yr, triggerRate) ==
  FGe(FDivSmall(FOfInt(triggerRate), TriggerUnit), FDivSmall(FOfCents(fixed30yr), 100))

\* the indices of the alerts the job will email, in file order (lines 197-198)
RECURSIVE eligibleFrom(_, _, _)
eligibleFrom(alerts, fixed30yr, i) ==
  IF i > Len(alerts) THEN <<>>
  ELSE (IF /\ ~alerts[i].unsubscribed
           /\ alerts[i].notified_at = NULL
           /\ rateAtOrBelow(fixed30yr, alerts[i].trigger_rate)
          THEN <<i>> ELSE <<>>) \o eligibleFrom(alerts, fixed30yr, i + 1)

\* sendEmail (lines 126-163) under what the mail service does with the
\* request: "ok" (2xx), "error" (another status), "reject" (the fetch
\* promise rejects). Without RESEND_API_KEY nothing is sent and true is returned.
sendEmail(apiKey, service) ==
  IF ~apiKey THEN [returns |-> Some(TRUE), dispatched |-> FALSE]
  ELSE IF service = "ok" THEN [returns |-> Some(TRUE), dispatched |-> TRUE]
  ELSE IF service = "error" THEN [returns |-> Some(FALSE), dispatched |-> FALSE]
  ELSE [returns |-> NULL, dispatched |-> FALSE]

IdleJob == [pc |-> "idle", run |-> 0, apiKey |-> FALSE, fixed30yr |-> 0,
            alerts |-> <<>>, eligible |-> <<>>, next |-> 0]

\* ---- the checked input space ----

\* multiples of $7,500; fees in multiples of $150; overrides of whole 5 years
Balances == {750000 * i : i \in 1..MaxBalanceIdx}
\* the closing costs at which a same-term refinance of $7,500 from 6.5% to 6%
\* over ten years costs exactly what the baseline costs
TieFee ==
  buildScenario("stay_current", 750000, 650, 120, 120, 0, 0, <<>>).netCostAtHorizon
  - buildScenario("refi_same_term", 750000, 600, 120, 120, 0, 0, <<>>).netCostAtHorizon
\* the closing costs that use up the interest which a same-term refinance of
\* $7,500 from 6.5% to 6% saves over 15.125 years
ZeroSavingsFee ==
  findById(generateScenarios([remainingBalance |-> 750000, currentAnnualRate |-> 650,
                              yearsRemaining |-> 121, closingCosts |-> 0,
                              refiRateSameTerm |-> 600, refiRate15yr |-> 650,
                              refiRate30yr |-> 700, horizonOverrideMonths |-> NULL]),
           "refi_same_term", 1).netSavingsAtHorizon
\* the same for a 15-year refinance at 5.5%, whose schedule ends two months
\* before the baseline's
LateSavingsFee ==
  findById(generateScenarios([remainingBalance |-> 750000, currentAnnualRate |-> 650,
                              yearsRemaining |-> 121, closingCosts |-> 0,
                              refiRateSameTerm |-> 650, refiRate15yr |-> 550,
                              refiRate30yr |-> 700, horizonOverrideMonths |-> NULL]),
           "refi_15yr", 1).netSavingsAtHorizon
Fees == {15000 * i : i \in 0..MaxFeeIdx} \cup {TieFee, ZeroSavingsFee, LateSavingsFee}
\* no override, 5 to 20 years, and the whole of a 30-year term
HorizonOverrides == {NULL} \cup {Some(60 * i) : i \in 1..MaxHorizonIdx} \cup {Some(Term30)}
\* 10, 15, 15.125 and 25 years
YearsRemaining == {80, 120, 121, 200}
CurrentRates == {650}
SameTermRates == {600, 650}
FifteenYearRates == {550, 650}
ThirtyYearRates == {625, 700}

EngineInputs ==
  [remainingBalance : Balances,
   currentAnnualRate : CurrentRates,
   yearsRemaining : YearsRemaining,
   closingCosts : Fees,
   refiRateSameTerm : SameTermRates,
   refiRate15yr : FifteenYearRates,
   refiRate30yr : ThirtyYearRates,
   horizonOverrideMonths : HorizonOverrides]

ScenarioIds == {"stay_current", "refi_same_term", "refi_15yr", "refi_30yr"}

VerdictHorizons == {12, 36, 100}
BreakEvens == {NULL} \cup {Some(m) : m \in 0..MaxBreakEven}
CashflowBreakEvens == {NULL, Some(0), Some(5), Some(40)}
\* around the green and yellow savings thresholds of every horizon
NetSavingsValues ==
  {-1, 0} \cup
  UNION {{(100 * p * h) \div 12 + d : d \in -1..1} :
           p \in {GreenPerYear, YellowPerYear}, h \in VerdictHorizons}
MonthlyDeltas == {-2500, 0, 1800}

Winners ==
  [id : ScenarioIds,
   interestBreakEvenMonths : BreakEvens,
   cashflowBreakEvenMonths : CashflowBreakEvens,
   netSavingsAtHorizon : NetSavingsValues,
   monthlyDelta : MonthlyDeltas]

\* direct calls of simpleBreakEven: costs that are whole multiples of the
\* monthly savings of $99.86 and $200.00, and costs that are not
MaxQuotient == 12
SimpleBasePayments == {150000, 200000}
SimpleRefiPayments == {140014, 150000, 180000, 190014, 210000}
SimpleClosingCosts ==
  {-6000, 0, 600000}
  \cup {k * 9986 : k \in 1..MaxQuotient} \cup {k * 20000 : k \in 1..MaxQuotient}

\* direct calls of trueBreakEven on short schedules: a row that pays interest only
MaxRows == 3
Row(m, interest) ==
  [month |-> m, payment |-> interest, principalPaid |-> 0,
   interestPaid |-> interest, remainingBalance |-> 0]
InterestRows(values, n) ==
  {[i \in 1..n |-> Row(i, f[i])] : f \in [1..n -> values]}
BaselineInterest == {0, 5, 10, 70}
RefiInterest == {0, 5}
BaselineSchedules == UNION {InterestRows(BaselineInterest, n) : n \in 0..MaxRows}
RefiSchedules == UNION {InterestRows(RefiInterest, n) : n \in 0..MaxRows}
TrueClosingCosts == {-10, 0, 10, 75, 80, 85}
TrueHorizons == 0..(MaxRows + 1)

BreakEvenCalls ==
  [fn : {"simpleBreakEven"},
   closingCosts : SimpleClosingCosts,
   baselineMonthlyPayment : SimpleBasePayments,
   refiMonthlyPayment : SimpleRefiPayments]
  \cup
  [fn : {"trueBreakEven"},
   baselineSchedule : BaselineSchedules,
   refiSchedule : RefiSchedules,
   closingCosts : TrueClosingCosts,
   horizonMonths : TrueHorizons]

\* direct calls of amortizationSchedule: small loans of whole multiples of
\* 40 cents, over 5, 15 and 30 years, without interest, at 6.5% and at 15%
MaxPrincipalIdx == 12
SchedulePrincipals == {40 * i : i \in 1..MaxPrincipalIdx}
ScheduleRates == {0, 650, 1500}
ScheduleTerms == {60, 180, 360}
ScheduleCalls ==
  [fn : {"amortizationSchedule"},
   principal : SchedulePrincipals,
   annualRate : ScheduleRates,
   termMonths : ScheduleTerms]

\* direct calls of sortScoredRates: every list of up to MaxRates scored
\* rates, named by their place, each of a color and one of three savings
MaxRates == 4
ScoredKinds == [color : {"green", "yellow", "red"}, totalSavings : {-100000, 150000}]
ScoredLists ==
  UNION {{[i \in 1..n |-> [lenderName |-> i, verdict |-> [color |-> f[i].color],
                           totalSavings |-> f[i].totalSavings]] :
            f \in [1..n -> ScoredKinds]} : n \in 0..MaxRates}
SortCalls == [fn : {"sortScoredRates"}, rates : ScoredLists]

\* direct calls of computeIRR, amounts in cents
MaxIrrHorizon == 5
IRRCalls ==
  [fn : {"computeIRR"},
   fees : {-10000, 0, 15000, 500000},
   refiMonthlyPayment : {180000, 190000, 210000},
   baselineMonthlyPayment : {200000},
   refiTermMonths : {2, 5},
   balanceSavedAtHorizon : {-80000, 0, 300000},
   horizonMonths : {-10, 0} \cup (1..MaxIrrHorizon)]

\* the rate service: two concurrent callers, each with its static fallback,
\* and the ways a request can settle
MaxTime == 6
MaxFetches == 3
Callers == {"a", "b"}
Fallbacks == [a |-> RateData(598, 544, 0), b |-> RateData(610, 550, 0)]
Response(status, rate30Match, rate15Match) ==
  [kind |-> "response", status |-> status, rate30Match |-> rate30Match, rate15Match |-> rate15Match]
FetchOutcomes ==
  {[kind |-> k, status |-> 0, rate30Match |-> NULL, rate15Match |-> NULL] :
      k \in {"network error", "timeout"}}
  \cup {Response(500, NULL, NULL), Response(200, NULL, NULL),
        Response(200, Some(50), Some(550)), Response(200, Some(610), Some(1600)),
        Response(200, Some(610), Some(550)), Response(200, Some(625), Some(560)),
        Response(200, Some(1200), Some(550)), Response(200, Some(610), Some(244))}

\* the alert store: requests and job runs of the checked input space
MaxAlerts == 2
MaxRuns == 2
AlertIds == 1..MaxAlerts
RateAlertBodies ==
  [email : {"u@x.io", "U@x.io", "v@x.io", "nobody"},
   triggerRate : {0, 600, 625, 1600},
   currentRate : {0, 650}]
UnsubscribeBodies ==
  [token : {Some(id) : id \in AlertIds}, email : {NULL}, resubscribe : BOOLEAN]
    \cup [token : {NULL}, email : {NULL, Some("u@x.io"), Some("U@x.io"), Some("v@x.io")},
          resubscribe : BOOLEAN]
Fixed30yrRates == {610, 650}
MailService == {"ok", "error", "reject"}

\* ---- state machines ----

NoInput == [remainingBalance |-> 0]
NoOutput == [horizonMonths |-> 0, scenarios |-> <<>>, verdict |-> NULL]
NoWinner == [id |-> "none"]

EngineIdle == input = NoInput /\ out = NoOutput /\ pc = "idle"
VerdictIdle == vWinner = NoWinner /\ vHorizon = 0 /\ vVerdict = NULL /\ vpc = "idle"
NoCall == [fn |-> "none"]
CallIdle == call = NoCall /\ ret = NULL /\ fpc = "idle" /\ bisect = NoLoop
IdleCaller == [pc |-> "idle", fallback |-> NULL, outcome |-> NULL, fresh |-> NULL, result |-> NULL]
RatesIdle ==
  /\ rateCache = NULL
  /\ now = 0
  /\ callers = [c \in Callers |-> IdleCaller]
  /\ fetchCount = 0
  /\ lastLive = NULL

AlertsIdle ==
  /\ alertStore = <<>>
  /\ job = IdleJob
  /\ mails = [id \in AlertIds |-> [total |-> 0, current |-> 0]]
  /\ acks = [created |-> 0, unsubscribed |-> {}]

\* the engine is a pure function of its input: one call per input
Init ==
  /\ input \in EngineInputs
  /\ out = NoOutput
  /\ pc = "ready"
  /\ VerdictIdle
  /\ CallIdle
  /\ RatesIdle
  /\ AlertsIdle

RunEngine ==
  /\ pc = "ready"
  /\ out' = runEngine(input)
  /\ pc' = "done"
  /\ UNCHANGED <<input, verdictVars, callVars, rateVars, alertVars>>

Next == RunEngine

Spec == Init /\ [][Next]_vars

\* generateVerdict called directly on any winner and horizon
InitVerdict ==
  /\ vWinner \in Winners
  /\ vHorizon \in VerdictHorizons
  /\ vVerdict = NULL
  /\ vpc = "ready"
  /\ EngineIdle
  /\ CallIdle
  /\ RatesIdle
  /\ AlertsIdle

GenerateVerdict ==
  /\ vpc = "ready"
  /\ vVerdict' = generateVerdict(vWinner, NoWinner, vHorizon)
  /\ vpc' = "done"
  /\ UNCHANGED <<vWinner, vHorizon, engineVars, callVars, rateVars, alertVars>>

NextVerdict == GenerateVerdict

SpecVerdict == InitVerdict /\ [][NextVerdict]_vars

\* simpleBreakEven and trueBreakEven called directly
InitBreakEven ==
  /\ call \in BreakEvenCalls
  /\ ret = NULL
  /\ fpc = "ready"
  /\ bisect = NoLoop
  /\ EngineIdle
  /\ VerdictIdle
  /\ RatesIdle
  /\ AlertsIdle

SimpleBreakEven ==
  /\ fpc = "ready"
  /\ call.fn = "simpleBreakEven"
  /\ ret' = simpleBreakEven(call.closingCosts, call.baselineMonthlyPayment,
                            call.refiMonthlyPayment)
  /\ fpc' = "done"
  /\ UNCHANGED <<call, bisect, engineVars, verdictVars, rateVars, alertVars>>

TrueBreakEven ==
  /\ fpc = "ready"
  /\ call.fn = "trueBreakEven"
  /\ ret' = trueBreakEven(call.baselineSchedule, call.refiSchedule,
                          call.closingCosts, call.horizonMonths)
  /\ fpc' = "done"
  /\ UNCHANGED <<call, bisect, engineVars, verdictVars, rateVars, alertVars>>

NextBreakEven == SimpleBreakEven \/ TrueBreakEven

SpecBreakEven == InitBreakEven /\ [][NextBreakEven]_vars

\* amortizationSchedule called directly
InitSchedule ==
  /\ call \in ScheduleCalls
  /\ ret = NULL
  /\ fpc = "ready"
  /\ bisect = NoLoop
  /\ EngineIdle
  /\ VerdictIdle
  /\ RatesIdle
  /\ AlertsIdle

AmortizationSchedule ==
  /\ fpc = "ready"
  /\ call.fn = "amortizationSchedule"
  /\ ret' = amortizationSchedule(call.principal, call.annualRate, call.termMonths)
  /\ fpc' = "done"
  /\ UNCHANGED <<call, bisect, engineVars, verdictVars, rateVars, alertVars>>

NextSchedule == AmortizationSchedule

SpecSchedule == InitSchedule /\ [][NextSchedule]_vars

\* computeIRR called directly
InitIRR ==
  /\ call \in IRRCalls
  /\ ret = NULL
  /\ fpc = "ready"
  /\ bisect = NoLoop
  /\ EngineIdle
  /\ VerdictIdle
  /\ RatesIdle
  /\ AlertsIdle

ComputeIRR ==
  /\ fpc = "ready"
  /\ call.fn = "computeIRR"
  /\ ret' = computeIRR(call.fees, call.refiMonthlyPayment, call.baselineMonthlyPayment,
                       call.refiTermMonths, call.balanceSavedAtHorizon, call.horizonMonths)
  /\ fpc' = "done"
  /\ UNCHANGED <<call, bisect, engineVars, verdictVars, rateVars, alertVars>>

NextIRR == ComputeIRR

SpecIRR == InitIRR /\ [][NextIRR]_vars

\* computeIRR called directly and followed through its loop: the guards
\* and the bracket search are one step, every pass of the loop body another
enteredWith(start) ==
  /\ bisect' = IF start = NULL THEN NoLoop ELSE start[1]
  /\ ret' = NULL
  /\ fpc' = IF start = NULL THEN "done" ELSE "bisecting"

EnterIRR ==
  /\ fpc = "ready"
  /\ call.fn = "computeIRR"
  /\ IF call.horizonMonths <= 0
       THEN ret' = NULL /\ fpc' = "done" /\ bisect' = NoLoop
     ELSE IF call.fees <= 0
       THEN ret' = IRRInfinity /\ fpc' = "done" /\ bisect' = NoLoop
     ELSE \E start \in {bracketSearch(
            nonNegative(npv(onePlus(BracketLo, 0), 0, call.fees, call.refiMonthlyPayment,
                            call.baselineMonthlyPayment, call.refiTermMonths,
                            call.balanceSavedAtHorizon, call.horizonMonths)),
            nonNegative(npv(onePlus(WideLo, 0), 0, call.fees, call.refiMonthlyPayment,
                            call.baselineMonthlyPayment, call.refiTermMonths,
                            call.balanceSavedAtHorizon, call.horizonMonths)),
            nonNegative(npv(onePlus(0, 0), 0, call.fees, call.refiMonthlyPayment,
                            call.baselineMonthlyPayment, call.refiTermMonths,
                            call.balanceSavedAtHorizon, call.horizonMonths)),
            nonNegative(npv(onePlus(BracketHi, 0), 0, call.fees, call.refiMonthlyPayment,
                            call.baselineMonthlyPayment, call.refiTermMonths,
                            call.balanceSavedAtHorizon, call.horizonMonths)))} :
            enteredWith(start)
  /\ UNCHANGED <<call, engineVars, verdictVars, rateVars, alertVars>>

steppedTo(step) ==
  /\ bisect' = step[1]
  /\ ret' = step[2]
  /\ fpc' = IF step[2] = NULL THEN "bisecting" ELSE "done"

BisectStep ==
  /\ fpc = "bisecting"
  /\ \E step \in {bisectionStep(bisect, midpoint(bisect),
                                 npv(midpoint(bisect), bisect.e + 1, call.fees,
                                     call.refiMonthlyPayment, call.baselineMonthlyPayment,
                                     call.refiTermMonths, call.balanceSavedAtHorizon,
                                     call.horizonMonths))} :
       steppedTo(step)
  /\ UNCHANGED <<call, engineVars, verdictVars, rateVars, alertVars>>

NextBisect == EnterIRR \/ BisectStep

\* computeIRR is synchronous: once called it runs to its return. This is
\* weak fairness of NextBisect, with ENABLED <<NextBisect>>_vars written as
\* the state predicate it equals: a step exists, and changes fpc or
\* bisect.i, exactly while fpc is not "done".
RunsToReturn == []<>(fpc = "done") \/ []<><<NextBisect>>_vars

SpecBisect == InitIRR /\ [][NextBisect]_vars /\ RunsToReturn

\* sortScoredRates called directly
InitSort ==
  /\ call \in SortCalls
  /\ ret = NULL
  /\ fpc = "ready"
  /\ bisect = NoLoop
  /\ EngineIdle
  /\ VerdictIdle
  /\ RatesIdle
  /\ AlertsIdle

SortScoredRates ==
  /\ fpc = "ready"
  /\ call.fn = "sortScoredRates"
  /\ ret' = Some(sortScoredRates(call.rates).returned)
  /\ call' = [call EXCEPT !.rates = sortScoredRates(call.rates).rates]
  /\ fpc' = "done"
  /\ UNCHANGED <<bisect, engineVars, verdictVars, rateVars, alertVars>>

NextSort == SortScoredRates

SpecSort == InitSort /\ [][NextSort]_vars

\* the rate service under concurrent calls of getLatestRates
InitRates ==
  /\ RatesIdle
  /\ EngineIdle
  /\ VerdictIdle
  /\ CallIdle
  /\ AlertsIdle

\* getLatestRates up to its return from the cache or its await (lines 133-139)
Call(c, fallback) ==
  /\ callers[c].pc \in {"idle", "done"}
  /\ IF cacheFresh(rateCache, now)
       THEN /\ callers' = [callers EXCEPT ![c] =
                 [IdleCaller EXCEPT !.pc = "done", !.fallback = Some(fallback),
                    !.result = Some([rates |-> rateCache[1].data, source |-> "cached"])]]
            /\ UNCHANGED fetchCount
       ELSE /\ fetchCount < MaxFetches
            /\ callers' = [callers EXCEPT ![c] =
                 [IdleCaller EXCEPT !.pc = "fetching", !.fallback = Some(fallback)]]
            /\ fetchCount' = fetchesAfterMiss(fetchCount,
                                 {d \in Callers : callers[d].pc = "fetching"})
  /\ UNCHANGED <<rateCache, now, lastLive, engineVars, verdictVars, callVars, alertVars>>

\* the request of c settles and fetchPMMSRates runs to its return or throw
FetchSettles(c, outcome) ==
  /\ callers[c].pc = "fetching"
  /\ callers' = [callers EXCEPT ![c].pc = "settled", ![c].outcome = Some(outcome),
                                ![c].fresh = Some(fetchPMMSRates(outcome, now))]
  /\ UNCHANGED <<rateCache, now, fetchCount, lastLive, engineVars, verdictVars, callVars, alertVars>>

\* the return of getLatestRates with the result of its fetch; only a live
\* result is stored in the cache slot
resumedWith(c, result) ==
  /\ callers' = [callers EXCEPT ![c].pc = "done", ![c].result = Some(result)]
  /\ IF result.source = "live"
       THEN /\ rateCache' = Some([data |-> callers[c].fresh[1].value[1], fetchedAt |-> now])
            /\ lastLive' = Some([data |-> callers[c].fresh[1].value[1], at |-> now, by |-> c])
       ELSE UNCHANGED <<rateCache, lastLive>>

\* getLatestRates after its await (lines 139-158)
Resume(c) ==
  /\ callers[c].pc = "settled"
  /\ \E result \in {afterFetch(callers[c].fresh[1], callers[c].fallback[1])} :
       resumedWith(c, result)
  /\ UNCHANGED <<now, fetchCount, engineVars, verdictVars, callVars, alertVars>>

\* an hour passes; no request stays open that long (AbortSignal.timeout(8000))
Tick ==
  /\ now < MaxTime
  /\ \A c \in Callers : callers[c].pc \in {"idle", "done"}
  /\ now' = now + 1
  /\ UNCHANGED <<rateCache, callers, fetchCount, lastLive, engineVars, verdictVars, callVars, alertVars>>

NextRates ==
  \/ \E c \in Callers : \E fallback \in {Fallbacks[c]} : Call(c, fallback)
  \/ \E c \in Callers, outcome \in FetchOutcomes : FetchSettles(c, outcome)
  \/ \E c \in Callers : Resume(c)
  \/ Tick

SpecRates == InitRates /\ [][NextRates]_vars

\* clearRateCache (pmms.ts lines 164-166)
ClearRateCache ==
  /\ rateCache' = NULL
  /\ UNCHANGED <<now, callers, fetchCount, lastLive, engineVars, verdictVars, callVars, alertVars>>

\* the rate service with the cache cleared at any moment between two steps
NextRatesCleared == NextRates \/ ClearRateCache

SpecRatesCleared == InitRates /\ [][NextRatesCleared]_vars

\* the alert file under requests to the two routes and runs of the
\* alert-check job. The routes read, change and write the file without an
\* await in between, so a request is one step; the job is another process
\* and awaits the mail service between its load and its save.
InitAlerts ==
  /\ AlertsIdle
  /\ EngineIdle
  /\ VerdictIdle
  /\ CallIdle
  /\ RatesIdle

\* POST /api/rate-alert (route.ts lines 35-83)
PostRateAlert(body) ==
  LET r == postRateAlert(alertStore, body, acks.created + 1, acks.created + 1)
  IN /\ r.alert > acks.created => acks.created < MaxAlerts
     /\ alertStore' = r.alerts
     /\ acks' = [acks EXCEPT !.created = IF r.alert > @ THEN r.alert ELSE @]
     /\ UNCHANGED <<job, mails, engineVars, verdictVars, callVars, rateVars>>

\* POST /api/unsubscribe (src/unnamed/part_007 lines 33-78)
PostUnsubscribe(body) ==
  LET r == postUnsubscribe(alertStore, body)
  IN /\ alertStore' = r.alerts
     /\ acks' = IF r.status # 200 THEN acks
                ELSE IF body.resubscribe
                  THEN [acks EXCEPT !.unsubscribed = @ \ {r.alert}]
                  ELSE [acks EXCEPT !.unsubscribed = @ \cup {r.alert}]
     /\ mails' = IF r.status = 200 /\ body.resubscribe
                   THEN [mails EXCEPT ![r.alert].current = 0] ELSE mails
     /\ UNCHANGED <<job, engineVars, verdictVars, callVars, rateVars>>

\* a run of check_alerts.ts up to its first await or its early return
\* (lines 169-215)
JobStart(apiKey, fixed30yr) ==
  /\ job.pc \in {"idle", "done", "failed"}
  /\ job.run < MaxRuns
  /\ job' = IF eligibleFrom(alertStore, fixed30yr, 1) = <<>>
              THEN [IdleJob EXCEPT !.pc = "done", !.run = job.run + 1]
              ELSE [pc |-> "sending", run |-> job.run + 1, apiKey |-> apiKey,
                    fixed30yr |-> fixed30yr, alerts |-> alertStore,
                    eligible |-> eligibleFrom(alertStore, fixed30yr, 1), next |-> 1]
  /\ UNCHANGED <<alertStore, mails, acks, engineVars, verdictVars, callVars, rateVars>>

\* one round of the loop of lines 217-237: the mail request settles
JobSend(service) ==
  LET i == job.eligible[job.next]
      id == job.alerts[i].id
      s == sendEmail(job.apiKey, service)
  IN /\ job.pc = "sending"
     /\ mails' = IF s.dispatched
                   THEN [mails EXCEPT ![id].total = @ + 1, ![id].current = @ + 1]
                   ELSE mails
     /\ job' = IF s.returns = NULL
                 THEN [IdleJob EXCEPT !.pc = "failed", !.run = job.run]
                 ELSE [job EXCEPT
                         !.alerts = IF s.returns[1]
                                      THEN [@ EXCEPT ![i].notified_at = Some(job.run)]
                                      ELSE @,
                         !.next = @ + 1,
                         !.pc = IF job.next = Len(job.eligible) THEN "saving" ELSE "sending"]
     /\ UNCHANGED <<alertStore, acks, engineVars, verdictVars, callVars, rateVars>>

\* saveAlerts(alerts) of line 240 and the end of the run
JobSave ==
  /\ job.pc = "saving"
  /\ alertStore' = job.alerts
  /\ job' = [IdleJob EXCEPT !.pc = "done", !.run = job.run]
  /\ UNCHANGED <<mails, acks, engineVars, verdictVars, callVars, rateVars>>

NextAlerts ==
  \/ \E body \in RateAlertBodies : PostRateAlert(body)
  \/ \E body \in UnsubscribeBodies : PostUnsubscribe(body)
  \/ \E apiKey \in BOOLEAN, fixed30yr \in Fixed30yrRates : JobStart(apiKey, fixed30yr)
  \/ \E service \in MailService : JobSend(service)
  \/ JobSave

SpecAlerts == InitAlerts /\ [][NextAlerts]_vars

\* ---- properties ----

EngineDone == pc = "done"
VerdictDone == vpc = "done"
Scenarios == out.scenarios
Baseline == out.scenarios[1]
RefiIndexes == 2..Len(out.scenarios)
BestIndexes == {i \in 1..Len(out.scenarios) : out.scenarios[i].isBestLongTerm}
FullTerm == roundMonths(input.yearsRemaining)
HasId(id) == \E i \in 1..Len(out.scenarios) : out.scenarios[i].id = id
RefiWinner == vWinner.id # "stay_current"

\* C1: every output of runEngine has exactly one scenario with isBestLongTerm =
\* true, and verdict.bestScenarioId is the id of that scenario.
C1_ExactlyOneBest ==
  EngineDone =>
    /\ Cardinality(BestIndexes) = 1
    /\ \A i \in BestIndexes : out.verdict.bestScenarioId = Scenarios[i].id

\* a run with all four scenarios in which a refinance is the one marked
C1_Witness ==
  /\ EngineDone
  /\ Len(Scenarios) = 4
  /\ \E i \in RefiIndexes : Scenarios[i].isBestLongTerm

\* C2: the winner is stay_current exactly when no refinance scenario has a
\* strictly lower netCostAtHorizon than the baseline (a tie does not win);
\* otherwise the winner is a refinance scenario of minimal netCostAtHorizon.
C2_WinnerRule ==
  EngineDone =>
    /\ out.verdict.bestScenarioId = "stay_current"
         <=> ~\E i \in RefiIndexes :
                Scenarios[i].netCostAtHorizon < Baseline.netCostAtHorizon
    /\ \A i \in BestIndexes :
         \A j \in 1..Len(Scenarios) :
           Scenarios[i].netCostAtHorizon <= Scenarios[j].netCostAtHorizon

\* a refinance scenario ties the baseline, none is cheaper, the baseline wins
C2_Witness ==
  /\ EngineDone
  /\ \E i \in RefiIndexes :
       Scenarios[i].netCostAtHorizon = Baseline.netCostAtHorizon
  /\ Baseline.isBestLongTerm

\* C3 as stated: in every run, with or without an override, the baseline has
\* fees = 0, remainingBalanceAtHorizon = 0, monthlyDelta = 0 and
\* netSavingsAtHorizon = 0.
C3_BaselineAllZero ==
  EngineDone =>
    /\ Baseline.id = "stay_current"
    /\ Baseline.fees = 0
    /\ Baseline.remainingBalanceAtHorizon = 0
    /\ Baseline.monthlyDelta = 0
    /\ Baseline.netSavingsAtHorizon = 0

\* C3 amended: in every run the baseline has fees = 0, monthlyDelta = 0 and
\* netSavingsAtHorizon = 0, and its remainingBalanceAtHorizon is 0 whenever the
\* horizon is not shorter than the full remaining term (always so without an
\* override).
C3_BaselineZeroAtFullTerm ==
  EngineDone =>
    /\ Baseline.id = "stay_current"
    /\ Baseline.fees = 0
    /\ Baseline.monthlyDelta = 0
    /\ Baseline.netSavingsAtHorizon = 0
    /\ out.horizonMonths >= FullTerm => Baseline.remainingBalanceAtHorizon = 0
    /\ IsNull(input.horizonOverrideMonths) => out.horizonMonths = FullTerm

\* an override equal to or beyond the full term, with interest paid in the horizon
C3_Witness ==
  /\ EngineDone
  /\ ~IsNull(input.horizonOverrideMonths)
  /\ out.horizonMonths >= FullTerm
  /\ Baseline.interestWithinHorizon > 0
  /\ Baseline.remainingBalanceAtHorizon = 0

\* C4: when the three refinance rates are all >= the current rate, only
\* stay_current is generated, it is the winner, and the verdict is red with
\* bestScenarioId = stay_current.
C4_NoLowerRateStays ==
  (/\ EngineDone
   /\ input.refiRateSameTerm >= input.currentAnnualRate
   /\ input.refiRate15yr >= input.currentAnnualRate
   /\ input.refiRate30yr >= input.currentAnnualRate)
  => /\ Len(Scenarios) = 1
     /\ Scenarios[1].id = "stay_current"
     /\ Scenarios[1].isBestLongTerm
     /\ out.verdict.color = "red"
     /\ out.verdict.bestScenarioId = "stay_current"

\* more than 15 years remaining, a 15-year rate equal to the current rate
C4_Witness ==
  /\ EngineDone
  /\ input.refiRateSameTerm >= input.currentAnnualRate
  /\ input.refiRate15yr = input.currentAnnualRate
  /\ input.refiRate30yr >= input.currentAnnualRate
  /\ input.yearsRemaining > FifteenYears
  /\ out.verdict.color = "red"

\* C5: when the winner given to generateVerdict is the baseline, the verdict is
\* red with netSavings = 0, monthlyDelta = 0, breakEvenMonths = null and
\* bestScenarioId = stay_current, whatever the horizon and the baseline's fields.
C5_BaselineVerdictFixed ==
  (VerdictDone /\ vWinner.id = "stay_current")
  => /\ vVerdict.color = "red"
     /\ vVerdict.netSavings = 0
     /\ vVerdict.monthlyDelta = 0
     /\ vVerdict.breakEvenMonths = NULL
     /\ vVerdict.bestScenarioId = "stay_current"

\* a baseline whose own fields would pass the green thresholds
C5_Witness ==
  /\ VerdictDone
  /\ vWinner.id = "stay_current"
  /\ vWinner.interestBreakEvenMonths = Some(0)
  /\ vWinner.monthlyDelta < 0
  /\ determineColor(vWinner.interestBreakEvenMonths,
                    vWinner.netSavingsAtHorizon, vHorizon) = "green"
  /\ vVerdict.color = "red"

\* C6: for every scenario of every output, netCostAtHorizon =
\* cashOutflowWithinHorizon + remainingBalanceAtHorizon and
\* cashOutflowWithinHorizon = fees + paymentsWithinHorizon, with
\* paymentsWithinHorizon = monthlyPayment * min(horizonMonths, termMonths).
C6_CostIdentities ==
  EngineDone =>
    \A i \in 1..Len(Scenarios) :
      LET s == Scenarios[i]
      IN  /\ s.netCostAtHorizon
               = s.cashOutflowWithinHorizon + s.remainingBalanceAtHorizon
          /\ s.cashOutflowWithinHorizon = s.fees + s.paymentsWithinHorizon
          /\ s.paymentsWithinHorizon
               = s.monthlyPayment
                 * (IF out.horizonMonths < s.termMonths
                      THEN out.horizonMonths ELSE s.termMonths)

\* a scenario with fees whose term ends before the horizon, and one that still
\* owes a balance at the horizon
C6_Witness ==
  /\ EngineDone
  /\ \E i \in RefiIndexes :
       Scenarios[i].fees > 0 /\ Scenarios[i].termMonths < out.horizonMonths
  /\ \E i \in RefiIndexes : Scenarios[i].remainingBalanceAtHorizon > 0

\* C7: for every refinance scenario, netSavingsAtHorizon = the baseline's
\* netCostAtHorizon minus the scenario's netCostAtHorizon, and so
\* verdict.netSavings = baseline.netCostAtHorizon - winner.netCostAtHorizon.
C7_SavingsIsNetCostDifference ==
  EngineDone =>
    /\ \A i \in RefiIndexes :
         Scenarios[i].netSavingsAtHorizon
           = Baseline.netCostAtHorizon - Scenarios[i].netCostAtHorizon
    /\ \A i \in BestIndexes :
         i # 1 => out.verdict.netSavings
                    = Baseline.netCostAtHorizon - Scenarios[i].netCostAtHorizon

\* the ids that the inclusion rules select, in the fixed order
C8_ExpectedIds ==
  <<"stay_current">>
  \o (IF input.refiRateSameTerm < input.currentAnnualRate
        THEN <<"refi_same_term">> ELSE <<>>)
  \o (IF input.yearsRemaining > 120 /\ input.refiRate15yr < input.currentAnnualRate
        THEN <<"refi_15yr">> ELSE <<>>)
  \o (IF input.refiRate30yr < input.currentAnnualRate
        THEN <<"refi_30yr">> ELSE <<>>)

\* C8: generateScenarios returns exactly the scenarios the inclusion rules
\* select, in the order stay_current, refi_same_term, refi_15yr, refi_30yr
\* (refi_15yr needs yearsRemaining > 15; exactly 15 excludes it).
C8_InclusionRules ==
  EngineDone =>
    [i \in 1..Len(Scenarios) |-> Scenarios[i].id] = C8_ExpectedIds

\* exactly 15 years remaining and a lower 15-year rate: no refi_15yr
C8_Witness ==
  /\ EngineDone
  /\ input.yearsRemaining = 120
  /\ input.refiRate15yr < input.currentAnnualRate
  /\ ~HasId("refi_15yr")
  /\ Len(Scenarios) = 3

\* C9: for a non-baseline winner the color is red whenever the break-even used
\* is null, or netSavings < 0, or the break-even exceeds horizonMonths.
C9_RedPreconditions ==
  (/\ VerdictDone
   /\ RefiWinner
   /\ \/ IsNull(vVerdict.breakEvenMonths)
      \/ vVerdict.netSavings < 0
      \/ Val(vVerdict.breakEvenMonths) > vHorizon)
  => vVerdict.color = "red"

\* no break-even at all, with savings above the green threshold
C9_Witness ==
  /\ VerdictDone
  /\ RefiWinner
  /\ IsNull(vVerdict.breakEvenMonths)
  /\ 12 * vVerdict.netSavings > 20000 * vHorizon
  /\ vVerdict.color = "red"

\* C10: for a non-baseline winner the color is green exactly when the
\* break-even used is non-null and <= horizonMonths, netSavings >= 0,
\* breakEven / horizonMonths < 0.33 and netSavings > 200 * (horizonMonths / 12).
C10_GreenIff ==
  (VerdictDone /\ RefiWinner)
  => (vVerdict.color = "green"
      <=> /\ ~IsNull(vVerdict.breakEvenMonths)
          /\ Val(vVerdict.breakEvenMonths) <= vHorizon
          /\ vVerdict.netSavings >= 0
          /\ 100 * Val(vVerdict.breakEvenMonths) < 33 * vHorizon
          /\ 12 * vVerdict.netSavings > 20000 * vHorizon)

\* green with the savings one cent above the threshold
C10_Witness ==
  /\ VerdictDone
  /\ RefiWinner
  /\ vVerdict.color = "green"
  /\ 12 * (vVerdict.netSavings - 1) <= 20000 * vHorizon

\* the green condition of determineColor on the verdict's own fields
GreenCondition ==
  /\ 100 * Val(vVerdict.breakEvenMonths) < 33 * vHorizon
  /\ 12 * vVerdict.netSavings > 20000 * vHorizon

\* the yellow thresholds: ratio < 0.67 and netSavings > 50 * (horizonMonths / 12)
YellowCondition ==
  /\ 100 * Val(vVerdict.breakEvenMonths) < 67 * vHorizon
  /\ 12 * vVerdict.netSavings > 5000 * vHorizon

\* none of the red preconditions holds
NoRedPrecondition ==
  /\ ~IsNull(vVerdict.breakEvenMonths)
  /\ Val(vVerdict.breakEvenMonths) <= vHorizon
  /\ vVerdict.netSavings >= 0

\* C11: for a non-baseline winner the color is yellow exactly when no red
\* precondition holds, the green condition fails and breakEven / horizonMonths
\* < 0.67 and netSavings > 50 * (horizonMonths / 12); every remaining case is
\* red, so the color is always exactly one of green, yellow, red.
C11_YellowIffAndTotal ==
  (VerdictDone /\ RefiWinner)
  => /\ vVerdict.color = "yellow"
          <=> (NoRedPrecondition /\ ~GreenCondition /\ YellowCondition)
     /\ vVerdict.color = "red"
          <=> ~(NoRedPrecondition /\ (GreenCondition \/ YellowCondition))
     /\ vVerdict.color \in {"green", "yellow", "red"}

\* yellow although the savings pass the green threshold: the ratio is in
\* [0.33, 0.67), one month below the yellow limit
C11_Witness ==
  /\ VerdictDone
  /\ RefiWinner
  /\ vVerdict.color = "yellow"
  /\ 12 * vVerdict.netSavings > 20000 * vHorizon
  /\ 100 * (Val(vVerdict.breakEvenMonths) + 1) >= 67 * vHorizon

\* C12: for a non-baseline winner, verdict.breakEvenMonths is the winner's
\* interestBreakEvenMonths when that is non-null (0 included) and the winner's
\* cashflowBreakEvenMonths otherwise.
C12_BreakEvenFallback ==
  (VerdictDone /\ RefiWinner)
  => vVerdict.breakEvenMonths
       = (IF IsNull(vWinner.interestBreakEvenMonths)
            THEN vWinner.cashflowBreakEvenMonths
            ELSE vWinner.interestBreakEvenMonths)

\* an interest break-even of 0 months is used although the cashflow
\* break-even is 5 months
C12_Witness ==
  /\ VerdictDone
  /\ RefiWinner
  /\ vWinner.interestBreakEvenMonths = Some(0)
  /\ vWinner.cashflowBreakEvenMonths = Some(5)
  /\ vVerdict.breakEvenMonths = Some(0)

CallDone(fn) == fpc = "done" /\ call.fn = fn

\* C13: simpleBreakEven returns null whenever refiPayment >= baselinePayment;
\* otherwise 0 whenever closingCosts <= 0; otherwise the least integer m with
\* m * (baselinePayment - refiPayment) >= closingCosts, which is the exact
\* quotient when the division is exact.
C13_SimpleBreakEvenCeil ==
  CallDone("simpleBreakEven") =>
    LET savings == call.baselineMonthlyPayment - call.refiMonthlyPayment
    IN  IF savings <= 0 THEN ret = NULL
        ELSE IF call.closingCosts <= 0 THEN ret = Some(0)
        ELSE /\ ret # NULL
             /\ Val(ret) * savings >= call.closingCosts
             /\ (Val(ret) - 1) * savings < call.closingCosts

\* the interest of month m of a schedule, 0 once the loan is paid off
InterestOf(schedule, m) == IF m <= Len(schedule) THEN schedule[m].interestPaid ELSE 0

\* the cumulative interest savings of months 1..m, in cents
RECURSIVE CumulativeSavings(_, _, _)
CumulativeSavings(baselineSchedule, refiSchedule, m) ==
  IF m <= 0 THEN 0
  ELSE CumulativeSavings(baselineSchedule, refiSchedule, m - 1)
       + InterestOf(baselineSchedule, m) - InterestOf(refiSchedule, m)

SavingsAt(m) == CumulativeSavings(call.baselineSchedule, call.refiSchedule, m)

\* C14: trueBreakEven returns 0 whenever closingCosts <= 0; with closingCosts
\* > 0 a non-null result m is the smallest month whose cumulative interest
\* savings are >= closingCosts: the sum is below closingCosts at every earlier
\* month.
C14_TrueBreakEvenFirstMonth ==
  CallDone("trueBreakEven") =>
    IF call.closingCosts <= 0 THEN ret = Some(0)
    ELSE ret # NULL =>
           /\ Val(ret) >= 1
           /\ SavingsAt(Val(ret)) >= call.closingCosts
           /\ \A j \in 1..(Val(ret) - 1) : SavingsAt(j) < call.closingCosts

\* C15: with closingCosts > 0, trueBreakEven returns null only when the
\* cumulative interest savings stay below closingCosts at every month from 1
\* to horizonMonths, also when the refinance schedule is shorter than the
\* horizon.
C15_NullOnlyWhenNeverCrossed ==
  (CallDone("trueBreakEven") /\ call.closingCosts > 0 /\ ret = NULL)
  => \A m \in 1..call.horizonMonths : SavingsAt(m) < call.closingCosts

\* the sum of principalPaid over rows 1..n of a schedule, in cents
RECURSIVE PrincipalPaidBetween(_, _, _)
PrincipalPaidBetween(schedule, lo, hi) ==
  IF lo > hi THEN 0
  ELSE IF lo = hi THEN schedule[lo].principalPaid
  ELSE PrincipalPaidBetween(schedule, lo, (lo + hi) \div 2)
       + PrincipalPaidBetween(schedule, (lo + hi) \div 2 + 1, hi)

PrincipalPaidUpTo(schedule, n) == PrincipalPaidBetween(schedule, 1, n)

\* C16: for P > 0, r >= 0 and a term n > 0, amortizationSchedule(P, r, n) has
\* exactly n rows with the months 1..n, the last remainingBalance is 0, every
\* remainingBalance is >= 0, and the sum of principalPaid over all rows is P
\* within 1 cent x n.
C16_ScheduleShapeAndPrincipal ==
  CallDone("amortizationSchedule") =>
    /\ Len(ret) = call.termMonths
    /\ \A m \in 1..Len(ret) : ret[m].month = m /\ ret[m].remainingBalance >= 0
    /\ ret[Len(ret)].remainingBalance = 0
    /\ PrincipalPaidUpTo(ret, Len(ret)) - call.principal <= call.termMonths
    /\ call.principal - PrincipalPaidUpTo(ret, Len(ret)) <= call.termMonths

\* C17: computeIRR returns +Infinity for every call with fees <= 0, whatever
\* the other arguments (horizonMonths included), and null for every call
\* with fees > 0 and horizonMonths <= 0; neither case raises.
C17_InfinityWhateverHorizon ==
  CallDone("computeIRR") =>
    /\ call.fees <= 0 => ret = IRRInfinity
    /\ (call.fees > 0 /\ call.horizonMonths <= 0) => ret = NULL

SourceTags == {"live", "cached", "fallback"}

AbsDiff(a, b) == IF a >= b THEN a - b ELSE b - a

\* the failures of a fetch: network error, timeout, non-2xx status,
\* unparseable body, a rate outside [2, 15], a change of more than 3 points
\* from the fallback in either rate
FetchFailed(outcome, fallback) ==
  \/ outcome.kind \in {"network error", "timeout"}
  \/ ~(outcome.status \in 200..299)
  \/ outcome.rate30Match = NULL
  \/ outcome.rate15Match = NULL
  \/ outcome.rate30Match[1] < 200 \/ outcome.rate30Match[1] > 1500
  \/ outcome.rate15Match[1] < 200 \/ outcome.rate15Match[1] > 1500
  \/ AbsDiff(outcome.rate30Match[1], fallback.rates.fixed_30yr) > 300
  \/ AbsDiff(outcome.rate15Match[1], fallback.rates.fixed_15yr) > 300

ReturnedBy(c) == callers[c].result[1]

\* C18: getLatestRates never raises: for every failure of the fetch it
\* returns the caller's fallback unchanged with source 'fallback', in all
\* other cases it returns source 'live' or 'cached', so the source is always
\* one of the three tags.
C18_FailSoft ==
  \A c \in Callers :
    callers[c].pc = "done" =>
      /\ ReturnedBy(c).source \in SourceTags
      /\ callers[c].outcome = NULL => ReturnedBy(c).source = "cached"
      /\ callers[c].outcome # NULL =>
            IF FetchFailed(callers[c].outcome[1], callers[c].fallback[1])
              THEN ReturnedBy(c) = [rates |-> callers[c].fallback[1], source |-> "fallback"]
            ELSE ReturnedBy(c).source \in {"live", "cached"}

\* caller c starts a call in this step
Calls(c) == callers[c].pc \in {"idle", "done"} /\ callers'[c] # callers[c]

ServedFromCache(c, data) ==
  /\ callers'[c].pc = "done"
  /\ callers'[c].result = Some([rates |-> data, source |-> "cached"])
  /\ fetchCount' = fetchCount

LiveResultOf(d) == callers[d].pc = "done" /\ ReturnedBy(d).source = "live"

\* C19 as stated: after a call returned 'live' at time t, every later call
\* made less than 6 hours after t returns the same rate data with source
\* 'cached' and performs no fetch, and a call made 6 hours or more after t
\* does not return that entry.
C19_CachedAfterAnyLive ==
  [][\A c, d \in Callers :
       (Calls(c) /\ LiveResultOf(d)) =>
         IF now - ReturnedBy(d).rates.fetched_at < CACHE_TTL_HOURS
           THEN ServedFromCache(c, ReturnedBy(d).rates)
         ELSE ~ServedFromCache(c, ReturnedBy(d).rates)]_vars

\* C19, amended: after a call returned 'live' at time t, and as long as no
\* other call has returned 'live' since, every later call made less than 6
\* hours after t returns the same rate data with source 'cached' and
\* performs no fetch; a call made 6 hours or more after t fetches, and a
\* call that fetched returns 'live' or 'fallback'.
C19_CachedAfterLatestLive ==
  [][\A c \in Callers :
       /\ (Calls(c) /\ lastLive # NULL) =>
            IF now - lastLive[1].at < CACHE_TTL_HOURS
              THEN ServedFromCache(c, lastLive[1].data)
            ELSE callers'[c].pc = "fetching" /\ fetchCount' = fetchCount + 1
       /\ (callers[c].pc = "settled" /\ callers'[c].pc = "done") =>
            callers'[c].result[1].source \in {"live", "fallback"}]_vars

C19_Witness ==
  /\ lastLive # NULL
  /\ \E c, d \in Callers :
       /\ callers[c].pc = "done"
       /\ ReturnedBy(c) = [rates |-> lastLive[1].data, source |-> "cached"]
       /\ callers[d].pc = "fetching"
       /\ now - lastLive[1].at >= CACHE_TTL_HOURS

\* every finished call holds a tagged result with both rates, and the cache
\* holds the data of the call that returned 'live' last, which passed the
\* range check and the anomaly check against that caller's fallback
CacheIsLastLive ==
  /\ \A c \in Callers :
       callers[c].pc = "done" =>
         /\ ReturnedBy(c).source \in SourceTags
         /\ DOMAIN ReturnedBy(c).rates.rates = {"fixed_30yr", "fixed_15yr"}
  /\ rateCache = NULL <=> lastLive = NULL
  /\ rateCache # NULL =>
       /\ rateCache[1] = [data |-> lastLive[1].data, fetchedAt |-> lastLive[1].at]
       /\ ~outsideRange(rateCache[1].data.rates.fixed_30yr)
       /\ ~outsideRange(rateCache[1].data.rates.fixed_15yr)
       /\ validateRateChange(rateCache[1].data, Fallbacks[lastLive[1].by], MaxChangePts)

\* a call that misses the cache sends its own request, whoever else waits
EachMissFetches ==
  \A c \in Callers :
    (Calls(c) /\ callers'[c].pc = "fetching") => fetchCount' = fetchCount + 1

\* C20: concurrent getLatestRates calls that start while the cache is empty
\* or expired are not deduplicated: each caller issues its own fetch, each
\* returns a usable tagged result without raising, and afterwards the cache
\* holds the validated result of whichever successful caller wrote last.
C20_NoSingleFlight == [](CacheIsLastLive) /\ [][EachMissFetches]_vars

C20_Witness ==
  /\ \A c \in Callers : LiveResultOf(c)
  /\ ReturnedBy("a").rates.fetched_at = ReturnedBy("b").rates.fetched_at
  /\ ReturnedBy("a").rates # ReturnedBy("b").rates
  /\ rateCache # NULL
  /\ rateCache[1].data = ReturnedBy("a").rates
  /\ lastLive[1].by = "a"

\* ---- rate alerts: notifications and concurrent requests ----
MarkedNotified(id) ==
  \E i \in 1..Len(alertStore) : alertStore[i].id = id /\ alertStore[i].notified_at # NULL

AtMostOneMail == \A id \in AlertIds : mails[id].current <= 1
MarkedOnlyAfterSend == \A id \in AlertIds : MarkedNotified(id) => mails[id].total >= 1
NoMailWhenMarked ==
  \A id \in AlertIds : mails'[id].total > mails[id].total => ~MarkedNotified(id)

\* C21: over runs of the alert-check job interleaved with subscribe,
\* unsubscribe and resubscribe requests, an alert is sent at most one
\* notification (counted from its last resubscription, which asks for a new
\* one), no notification goes to an alert whose notified_at is set in the
\* store, and notified_at is set only for an alert whose send succeeded.
C21_DispatchedExactlyOnce ==
  /\ [](AtMostOneMail /\ MarkedOnlyAfterSend)
  /\ [][NoMailWhenMarked]_vars


\* every alert whose creation was acknowledged is in the file, unsubscribed
\* exactly when the last acknowledged request for it was an unsubscribe
RequestsReflected ==
  \A id \in 1..acks.created :
    \E i \in 1..Len(alertStore) :
      /\ alertStore[i].id = id
      /\ alertStore[i].unsubscribed = (id \in acks.unsubscribed)

NoMailAfterUnsubscribe ==
  \A id \in AlertIds : mails'[id].total > mails[id].total => id \notin acks.unsubscribed

\* C30: a subscribe, unsubscribe or resubscribe request that succeeded while
\* the alert-check job was running is still reflected in the store once the
\* job has finished (no created alert dropped, no unsubscribed flag
\* reverted), and no notification is sent to an alert after its unsubscribe
\* request has returned successfully.
C30_RequestsSurviveJob ==
  /\ [](job.pc \in {"done", "failed"} => RequestsReflected)
  /\ [][NoMailAfterUnsubscribe]_vars


\* ---- warnings, winner's savings, break-even bounds ----
TermResetLabels == {"Term Reset Trap", "Term Reset Tradeoff"}
WarningsIn(sc, labels) == {k \in 1..Len(sc.warnings) : sc.warnings[k] \in labels}
OverrideGiven == ~IsNull(input.horizonOverrideMonths)

\* what C22 says of every scenario but the labelling
TermResetOnlyOnOwing30 ==
  \A i \in 1..Len(Scenarios) :
    IF Scenarios[i].id = "refi_30yr"
      THEN Cardinality(WarningsIn(Scenarios[i], TermResetLabels))
             = (IF Scenarios[i].remainingBalanceAtHorizon > 0 THEN 1 ELSE 0)
      ELSE WarningsIn(Scenarios[i], TermResetLabels) = {}

PaymentIncrease == {"Payment Increase Warning"}
PaysMore(sc) == sc.id # "stay_current" /\ sc.monthlyPayment > Baseline.monthlyPayment

\* selectWinner called once more on the ranked list as the run left it
SelectedAgain == selectWinner(rankScenarios(Scenarios), Baseline)

\* C23: after runEngine the winner carries exactly one Payment Increase
\* warning if and only if it is a refinance scenario whose monthlyPayment
\* exceeds the baseline's; no other scenario carries one; and selectWinner
\* called again on the same ranked list adds no second one.
C23_OnePaymentIncrease ==
  EngineDone =>
    /\ \A i \in 1..Len(Scenarios) :
         Cardinality(WarningsIn(Scenarios[i], PaymentIncrease))
           = (IF Scenarios[i].isBestLongTerm /\ PaysMore(Scenarios[i]) THEN 1 ELSE 0)
    /\ \A i \in BestIndexes : SelectedAgain.warnings = Scenarios[i].warnings

\* a refinance wins with a higher payment and carries the warning, next to
\* a scenario that lost
C23_Witness ==
  /\ EngineDone
  /\ Len(Scenarios) >= 3
  /\ \E i \in BestIndexes :
       /\ PaysMore(Scenarios[i])
       /\ Cardinality(WarningsIn(Scenarios[i], PaymentIncrease)) = 1
       /\ Cardinality(WarningsIn(SelectedAgain, PaymentIncrease)) = 1


\* C26: whenever runEngine selects a refinance scenario as winner (its
\* netCostAtHorizon strictly lower than the baseline's), verdict.netSavings
\* is strictly positive.
C26_WinnerSaves ==
  EngineDone =>
    \A i \in BestIndexes :
      Scenarios[i].id # "stay_current" =>
        /\ Scenarios[i].netCostAtHorizon < Baseline.netCostAtHorizon
        /\ out.verdict.netSavings > 0


\* the verdict took determineColor's "breakEven > horizonMonths" branch
BeyondHorizonBranch ==
  /\ out.verdict.bestScenarioId # "stay_current"
  /\ ~IsNull(out.verdict.breakEvenMonths)
  /\ out.verdict.netSavings >= 0
  /\ Val(out.verdict.breakEvenMonths) > out.horizonMonths

ColorRank(color) == CASE color = "green" -> 0 [] color = "yellow" -> 1 [] OTHER -> 2

\* C28: for a fixed horizonMonths, raising netSavings with the break-even
\* unchanged, or lowering a non-null break-even with netSavings unchanged,
\* never moves the verdict color to a worse tier.
C28_ColorMonotone ==
  VerdictDone /\ RefiWinner =>
    /\ \A s2 \in NetSavingsValues :
         s2 >= vVerdict.netSavings =>
           ColorRank(determineColor(vVerdict.breakEvenMonths, s2, vHorizon))
             <= ColorRank(vVerdict.color)
    /\ ~IsNull(vVerdict.breakEvenMonths) =>
         \A b2 \in 0..Val(vVerdict.breakEvenMonths) :
           ColorRank(determineColor(Some(b2), vVerdict.netSavings, vHorizon))
             <= ColorRank(vVerdict.color)

\* a yellow verdict that a lower break-even turns green and that lower
\* savings would have made red
C28_Witness ==
  /\ VerdictDone
  /\ RefiWinner
  /\ vVerdict.color = "yellow"
  /\ \E b2 \in 0..Val(vVerdict.breakEvenMonths) :
       determineColor(Some(b2), vVerdict.netSavings, vHorizon) = "green"
  /\ \E s0 \in NetSavingsValues :
       /\ 0 <= s0
       /\ s0 < vVerdict.netSavings
       /\ determineColor(vVerdict.breakEvenMonths, s0, vHorizon) = "red"


\* ---- the rate cache slot ----
ReturnsWith(c, source) ==
  /\ callers'[c] # callers[c]
  /\ callers'[c].pc = "done"
  /\ callers'[c].result[1].source = source

\* the step is the return of a call whose fetch succeeded and passed the
\* anomaly check against the call's own fallback, and it stores that result
LiveWrite(c) ==
  /\ ReturnsWith(c, "live")
  /\ ~callers[c].fresh[1].thrown
  /\ validateRateChange(callers[c].fresh[1].value[1], callers[c].fallback[1], MaxChangePts)
  /\ callers'[c].result[1].rates = callers[c].fresh[1].value[1]
  /\ rateCache' = Some([data |-> callers[c].fresh[1].value[1], fetchedAt |-> now])

SlotWrittenOnlyByLive ==
  /\ rateCache' # rateCache =>
       \/ \E c \in Callers : LiveWrite(c)
       \/ rateCache' = NULL /\ callers' = callers
  /\ \A c \in Callers :
       ReturnsWith(c, "cached") \/ ReturnsWith(c, "fallback") => rateCache' = rateCache
  /\ \A c \in Callers :
       ReturnsWith(c, "cached") =>
         /\ lastLive # NULL
         /\ callers'[c].result[1].rates = lastLive[1].data

\* C29: the cache slot is written only where a fetch succeeded and passed
\* the anomaly check against that call's fallback (clearRateCache apart,
\* which empties it); calls returning 'cached' or 'fallback' leave the slot
\* unchanged; and every value returned with source 'cached' was returned
\* before by a call with source 'live'.
C29_SlotWrittenOnlyByLive == [][SlotWrittenOnlyByLive]_vars

\* a call has returned its fallback after a failed fetch, the entry of an
\* earlier live result is still in the slot, and another call was served it
C29_Witness ==
  /\ rateCache # NULL
  /\ \E c, d \in Callers :
       /\ callers[c].pc = "done"
       /\ ReturnedBy(c).source = "fallback"
       /\ callers[d].pc = "done"
       /\ ReturnedBy(d) = [rates |-> rateCache[1].data, source |-> "cached"]


\* ---- the order of scored lender rates ----
Sorted == ret[1]

\* the place in the argument of the k-th returned rate
PlaceOf(k) == Sorted[k].lenderName

\* C25: sortScoredRates leaves its argument as it was and returns a
\* permutation of it, ordered by color rank green < yellow < red and within
\* a color by totalSavings descending, rates equal in both in input order.
C25_StableColorThenSavings ==
  /\ [](CallDone("sortScoredRates") =>
         /\ Len(Sorted) = Len(call.rates)
         /\ {PlaceOf(k) : k \in 1..Len(Sorted)} = 1..Len(call.rates)
         /\ \A k \in 1..Len(Sorted) : Sorted[k] = call.rates[PlaceOf(k)]
         /\ \A j, k \in 1..Len(Sorted) :
              j < k =>
                \/ colorOrder(Sorted[j].verdict.color) < colorOrder(Sorted[k].verdict.color)
                \/ /\ Sorted[j].verdict.color = Sorted[k].verdict.color
                   /\ \/ Sorted[j].totalSavings > Sorted[k].totalSavings
                      \/ /\ Sorted[j].totalSavings = Sorted[k].totalSavings
                         /\ PlaceOf(j) < PlaceOf(k))
  /\ [][call.fn = "sortScoredRates" => call'.rates = call.rates]_vars

\* four rates out of order: a red one first, two equal yellow ones, a green
\* one last
C25_Witness ==
  /\ CallDone("sortScoredRates")
  /\ Len(call.rates) = 4
  /\ call.rates[1].verdict.color = "red"
  /\ call.rates[4].verdict.color = "green"
  /\ call.rates[2].verdict = call.rates[3].verdict
  /\ call.rates[2].totalSavings = call.rates[3].totalSavings
  /\ call.rates[2].verdict.color = "yellow"
  /\ <<PlaceOf(1), PlaceOf(2), PlaceOf(3), PlaceOf(4)>> = <<4, 2, 3, 1>>



\* ---- C24 ----
\* the sign class of NPV at a bracket end, evaluated on its own
SignChange(r) ==
  npvNonNegative(r, call.fees, call.refiMonthlyPayment, call.baselineMonthlyPayment,
                 call.refiTermMonths, call.balanceSavedAtHorizon, call.horizonMonths)
    # npvNonNegative(BracketHi, call.fees, call.refiMonthlyPayment,
                     call.baselineMonthlyPayment, call.refiTermMonths,
                     call.balanceSavedAtHorizon, call.horizonMonths)

PositiveCall == call.fn = "computeIRR" /\ call.fees > 0 /\ call.horizonMonths > 0

FirstBracketLo ==
  IF SignChange(BracketLo) THEN BracketLo ELSE IF SignChange(WideLo) THEN WideLo ELSE 0

SignClassAt(u) ==
  nonNegative(npv(u, bisect.e, call.fees, call.refiMonthlyPayment,
                  call.baselineMonthlyPayment, call.refiTermMonths,
                  call.balanceSavedAtHorizon, call.horizonMonths))

NullIffNoSignChange ==
  (fpc = "done" /\ PositiveCall) =>
    /\ ret = NULL <=> ~(SignChange(BracketLo) \/ SignChange(WideLo) \/ SignChange(0))
    /\ ret # NULL => (ret.kind = "root" /\ ret.iterations <= MaxIterations)

BisectsFirstBracket ==
  (fpc = "bisecting" /\ bisect.i = 0) =>
    /\ PositiveCall
    /\ SignChange(FirstBracketLo)
    /\ bisect.lo = onePlus(FirstBracketLo, 0)
    /\ bisect.hi = onePlus(BracketHi, 0)

OppositeSigns ==
  fpc = "bisecting" =>
    /\ bisect.i < MaxIterations
    /\ BigCmp(bisect.lo, bisect.hi) < 0
    /\ SignClassAt(bisect.lo) # SignClassAt(bisect.hi)

\* C24: for fees > 0 and horizonMonths > 0 computeIRR returns null exactly
\* when NPV changes sign over none of [-0.08, 2.0], [-0.099, 2.0] and
\* [0, 2.0]; otherwise it bisects the first of them that shows a sign
\* change, NPV(lo) and NPV(hi) are of opposite sign at every iteration, and
\* it returns a non-null result after at most 100 iterations.
C24_BisectionKeepsSignChange ==
  /\ [](NullIffNoSignChange /\ BisectsFirstBracket /\ OppositeSigns)
  /\ <>(fpc = "done")

\* the first two brackets show no sign change, the third does, and the
\* loop has returned a root after several iterations
C24_Witness ==
  /\ fpc = "done"
  /\ PositiveCall
  /\ ~SignChange(BracketLo)
  /\ ~SignChange(WideLo)
  /\ SignChange(0)
  /\ ret # NULL
  /\ ret.kind = "root"
  /\ ret.iterations >= 10

====
